---- MODULE Spec2Model ----
(***************************************************************************)
(* Process-diagram core of adaptic-process-visualizer:                     *)
(*   - the Connectivity Repairer  (backend, ensureSingleConnectedProcess)  *)
(*   - the Lane Layout Engine     (frontend Canvas, layoutMap)             *)
(*   - the Boundary Geometry Resolver (frontend Canvas, getBoundaryPoint)  *)
(*   - the client / server state machine that decides which diagram is     *)
(*     handed to Canvas.                                                   *)
(* Arrays are 1-based here (0-based in the source); element ids are opaque *)
(* strings that the code only compares for equality.                       *)
(***************************************************************************)
EXTENDS Integers, Sequences, FiniteSets, TLC

VARIABLES
    modelIn,            \* repairer: the candidate diagram handed to the repairer
    updated,            \* repairer: ensureSingleConnectedProcess(modelIn), once run
    again,              \* repairer: ensureSingleConnectedProcess(updated), once run
    canvasModel,        \* layout: the `model` prop of Canvas
    layoutPositions,    \* layout: layoutMap of Canvas (App.tsx), once rendered
    compiledPositions,  \* layout: layoutMap of the compiled Canvas (App.js), once rendered
    boundaryIn,         \* geometry: the arguments of a getBoundaryPoint call
    boundaryOut,        \* geometry: the point getBoundaryPoint returned, once called
    geminiKeySet,       \* server: GEMINI_API_KEY is set in the environment
    now,                \* server: Date.now(), in clock ticks
    processModel,       \* server: the in-memory processModel
    workflows,          \* server: workflow id -> its stored versions (jsonContent), oldest first
    model,              \* client: the model state of App, handed to Canvas
    history,            \* client: undo history
    historyIndex,       \* client: index into history, counted from 0
    activeWorkflowId,   \* client: id of the active workflow, 0 for null
    pendingSave,        \* client: the armed debounce timer of scheduleSave
    requests,           \* server: the HTTP requests on processModel, each with its handler's position
    deleted,            \* server: the ids of the workflows whose isDeleted flag is set
    versionRows,        \* server: the rows of table workflow_versions
    dbRequests,         \* server: the PUT and restore requests, each with its handler's position
    inFlight,           \* client: the sendInstruction calls awaiting their response, each with its closure
    saveCalls,          \* client: the scheduleSave calls made so far, each with the fate of its timer and PUT
    saving,             \* client: the save status shown ("idle", "saving", "saved", "error")
    userActions         \* the number of user actions taken in the session

repairVars == <<modelIn, updated, again>>
layoutVars == <<canvasModel, layoutPositions, compiledPositions, boundaryIn, boundaryOut>>
serverVars == <<geminiKeySet, now, processModel, workflows>>
clientVars == <<model, history, historyIndex, activeWorkflowId, pendingSave>>
execVars == <<requests>>
storeVars == <<deleted, versionRows, dbRequests>>
sessionVars == <<inFlight, saveCalls, saving, userActions>>
refinedVars == <<execVars, storeVars, sessionVars>>
vars == <<repairVars, layoutVars, serverVars, clientVars, refinedVars>>

----------------------------------------------------------------------------
(* Data model: ElementSchema / ConnectionSchema / ProcessSchema.           *)

Types == {"start_event", "end_event", "task", "gateway"}

\* PositionSchema, ElementSchema, ConnectionSchema: the value has the shape
\* the schema asks for.
IsPoint(p) == DOMAIN p = {"x", "y"} /\ p.x \in Int /\ p.y \in Int

IsElement(e) ==
    /\ DOMAIN e = {"id", "type", "label", "position"}
    /\ e.type \in Types
    /\ IsPoint(e.position)

IsConnection(c) == {"source", "target"} \subseteq DOMAIN c /\ DOMAIN c \subseteq {"source", "target", "label"}

\* ProcessSchema.safeParse(m).success: m has the shape ProcessSchema asks for.
IsDiagram(m) ==
    /\ DOMAIN m = {"processName", "swimlanes", "elements", "connections"}
    /\ \A k \in 1..Len(m.swimlanes) : DOMAIN m.swimlanes[k] = {"id", "label", "elements"}
    /\ \A k \in 1..Len(m.elements) : IsElement(m.elements[k])
    /\ \A k \in 1..Len(m.connections) : IsConnection(m.connections[k])

\* Value of a result that has not been computed yet.
NotRun == [processName |-> "<not run>", swimlanes |-> <<>>, elements |-> <<>>, connections |-> <<>>]

\* The diagram both the server (processModel) and the client (useState) start from.
initialModel ==
    [processName |-> "Untitled Process",
     swimlanes   |-> <<[id |-> "lane-1", label |-> "Lane A", elements |-> <<"start-1", "task-1">>],
                       [id |-> "lane-2", label |-> "Lane B", elements |-> <<"end-1">>]>>,
     elements    |-> <<[id |-> "start-1", type |-> "start_event", label |-> "Start",
                        position |-> [x |-> 80, y |-> 80]],
                       [id |-> "task-1", type |-> "task", label |-> "Task",
                        position |-> [x |-> 240, y |-> 70]],
                       [id |-> "end-1", type |-> "end_event", label |-> "End",
                        position |-> [x |-> 420, y |-> 80]]>>,
     connections |-> <<[source |-> "start-1", target |-> "task-1"],
                       [source |-> "task-1", target |-> "end-1"]>>]

\* pendingSave when no timer is armed.
NoSave == [id |-> 0, json |-> NotRun]

\* Server and client right after start-up (module initialisers and useState).
AppStarted ==
    /\ now = 1
    /\ processModel = initialModel
    /\ workflows = <<>>
    /\ model = initialModel
    /\ history = <<initialModel>>
    /\ historyIndex = 0
    /\ activeWorkflowId = 0
    /\ pendingSave = NoSave
    /\ requests = <<>>
    /\ deleted = {}
    /\ versionRows = {}
    /\ dbRequests = <<>>
    /\ inFlight = <<>>
    /\ saveCalls = <<>>
    /\ saving = "idle"
    /\ userActions = 0

ElementIds(elements) == {elements[i].id : i \in 1..Len(elements)}

----------------------------------------------------------------------------
(* JavaScript Number arithmetic (IEEE 754 binary64, round to nearest, ties *)
(* to even) as the repairer and getBoundaryPoint use it.  A natural number *)
(* too wide for the checker's integers is a tuple of NDigits digits of     *)
(* base Base, least significant first.                                     *)

DigitBits == 14
Base == 2 ^ DigitBits
NDigits == 9
MantissaBits == 53

Pow2(k) == 2 ^ k

bigZero == [i \in 1..NDigits |-> 0]

\* The natural number n < Base^2 as digits.
bigFromInt(n) ==
    [i \in 1..NDigits |-> IF i = 1 THEN n % Base
                          ELSE IF i = 2 THEN (n \div Base) % Base
                          ELSE IF i = 3 THEN n \div (Base * Base)
                          ELSE 0]

bigOne == bigFromInt(1)

RECURSIVE bigAddFrom(_, _, _, _)
bigAddFrom(a, b, i, carry) ==
    IF i > NDigits THEN <<>>
    ELSE LET t == a[i] + b[i] + carry
         IN  <<t % Base>> \o bigAddFrom(a, b, i + 1, t \div Base)

bigAdd(a, b) == bigAddFrom(a, b, 1, 0)

\* a - b for a >= b.
RECURSIVE bigSubFrom(_, _, _, _)
bigSubFrom(a, b, i, borrow) ==
    IF i > NDigits THEN <<>>
    ELSE LET t == a[i] - b[i] - borrow
         IN  IF t < 0 THEN <<t + Base>> \o bigSubFrom(a, b, i + 1, 1)
             ELSE <<t>> \o bigSubFrom(a, b, i + 1, 0)

bigSub(a, b) == bigSubFrom(a, b, 1, 0)

\* -1, 0, 1 as a < b, a = b, a > b.
RECURSIVE bigCmpFrom(_, _, _)
bigCmpFrom(a, b, i) ==
    IF i = 0 THEN 0
    ELSE IF a[i] < b[i] THEN -1
    ELSE IF a[i] > b[i] THEN 1
    ELSE bigCmpFrom(a, b, i - 1)

bigCmp(a, b) == bigCmpFrom(a, b, NDigits)

\* a * 2^k for 0 <= k < DigitBits.
RECURSIVE bigShlBitsFrom(_, _, _, _)
bigShlBitsFrom(a, k, i, carry) ==
    IF i > NDigits THEN <<>>
    ELSE LET t == a[i] * Pow2(k) + carry
         IN  <<t % Base>> \o bigShlBitsFrom(a, k, i + 1, t \div Base)

\* a * 2^k.
bigShl(a, k) ==
    LET s == bigShlBitsFrom(a, k % DigitBits, 1, 0)
        d == k \div DigitBits
    IN  [i \in 1..NDigits |-> IF i - d >= 1 THEN s[i - d] ELSE 0]

\* floor(a / 2^k).
bigShr(a, k) ==
    LET d == k \div DigitBits
        r == k % DigitBits
        s == [i \in 1..(NDigits + 1) |-> IF i + d <= NDigits THEN a[i + d] ELSE 0]
    IN  [i \in 1..NDigits |-> (s[i] \div Pow2(r)) + (s[i + 1] % Pow2(r)) * Pow2(DigitBits - r)]

RECURSIVE intBitLen(_)
intBitLen(n) == IF n = 0 THEN 0 ELSE 1 + intBitLen(n \div 2)

RECURSIVE bigBitLenFrom(_, _)
bigBitLenFrom(a, i) ==
    IF i = 0 THEN 0
    ELSE IF a[i] # 0 THEN (i - 1) * DigitBits + intBitLen(a[i])
    ELSE bigBitLenFrom(a, i - 1)

\* Number of bits of a (0 for zero).
bigBitLen(a) == bigBitLenFrom(a, NDigits)

\* Digit k of a * b before carries, for a and b of at most 4 digits.
bigMulColumn(a, b, k) ==
    LET term(i) == IF k + 1 - i >= 1 /\ k + 1 - i <= 4 THEN a[i] * b[k + 1 - i] ELSE 0
    IN  term(1) + term(2) + term(3) + term(4)

RECURSIVE bigMulFrom(_, _, _, _)
bigMulFrom(a, b, k, carry) ==
    IF k > NDigits THEN <<>>
    ELSE LET t == bigMulColumn(a, b, k) + carry
         IN  <<t % Base>> \o bigMulFrom(a, b, k + 1, t \div Base)

\* a * b for a, b < 2^56.
bigMul(a, b) == bigMulFrom(a, b, 1, 0)

\* Long division: [q, r] with n = q * d + r, 0 <= r < d, for q < 2^(bits).
\* The quotient is evaluated at every step (the test on q1[1]) rather than
\* left as a chain of pending additions.
RECURSIVE bigDivFrom(_, _, _, _)
bigDivFrom(r, d, i, q) ==
    IF i < 0 THEN [q |-> q, r |-> r]
    ELSE LET t   == bigShl(d, i)
             hit == bigCmp(t, r) <= 0
             q1  == IF hit THEN bigAdd(q, bigShl(bigOne, i)) ELSE q
             r1  == IF hit THEN bigSub(r, t) ELSE r
         IN  IF q1[1] >= 0 THEN bigDivFrom(r1, d, i - 1, q1) ELSE [q |-> q1, r |-> r1]

bigDiv(n, d, bits) == bigDivFrom(n, d, bits - 1, bigZero)

\* A Number: zero, a finite nonzero value (-1)^neg * m * 2^e with
\* 2^52 <= m < 2^53, an infinity, or NaN.
dblZero == [cls |-> "zero", neg |-> FALSE, m |-> bigZero, e |-> 0]
dblNaN == [cls |-> "nan", neg |-> FALSE, m |-> bigZero, e |-> 0]
dblInf(neg) == [cls |-> "inf", neg |-> neg, m |-> bigZero, e |-> 0]

\* The largest exponent e of a finite Number m * 2^e with 2^52 <= m < 2^53
\* (Number.MAX_VALUE = (2^53 - 1) * 2^971).
MaxExponent == 971

\* The Number m * 2^e (2^52 <= m < 2^53) after rounding: beyond the largest
\* finite Number the result is Infinity.  Results below the normal range do
\* not occur in this model.
dblNormal(neg, m, e) ==
    IF e > MaxExponent THEN dblInf(neg)
    ELSE [cls |-> "num", neg |-> neg, m |-> m, e |-> e]

\* The Number nearest to x * 2^e (x > 0), ties to even.
roundBig(neg, x, e) ==
    LET len == bigBitLen(x)
    IN  IF len <= MantissaBits
        THEN dblNormal(neg, bigShl(x, MantissaBits - len), e - (MantissaBits - len))
        ELSE LET t    == len - MantissaBits
                 q    == bigShr(x, t)
                 rem  == bigSub(x, bigShl(q, t))
                 half == bigShl(bigOne, t - 1)
                 c    == bigCmp(rem, half)
                 up   == c > 0 \/ (c = 0 /\ q[1] % 2 = 1)
                 q1   == IF up THEN bigAdd(q, bigOne) ELSE q
             IN  IF bigBitLen(q1) > MantissaBits
                 THEN dblNormal(neg, bigShr(q1, 1), e + t + 1)
                 ELSE dblNormal(neg, q1, e + t)

\* The Number of the integer n, |n| < Base^2.
dblFromInt(n) ==
    IF n = 0 THEN dblZero
    ELSE roundBig(n < 0, bigFromInt(IF n < 0 THEN -n ELSE n), 0)

\* Math.abs
dblAbs(a) == [a EXCEPT !.neg = FALSE]

dblNeg(a) == IF a.cls \in {"zero", "nan"} THEN a ELSE [a EXCEPT !.neg = ~a.neg]

\* |a| < |b| for finite a, b.
dblMagLess(a, b) ==
    IF b.cls = "zero" THEN FALSE
    ELSE IF a.cls = "zero" THEN TRUE
    ELSE a.e < b.e \/ (a.e = b.e /\ bigCmp(a.m, b.m) < 0)

\* a < b for finite a, b.
dblLess(a, b) ==
    IF a.cls = "zero" THEN b.cls = "num" /\ ~b.neg
    ELSE IF b.cls = "zero" THEN a.neg
    ELSE IF a.neg # b.neg THEN a.neg
    ELSE IF a.neg THEN dblMagLess(b, a)
    ELSE dblMagLess(a, b)

\* Math.max(a, b)
dblMax(a, b) ==
    IF a.cls = "nan" \/ b.cls = "nan" THEN dblNaN
    ELSE IF a.cls = "inf" THEN (IF a.neg THEN b ELSE a)
    ELSE IF b.cls = "inf" THEN (IF b.neg THEN a ELSE b)
    ELSE IF dblLess(a, b) THEN b ELSE a

\* a / b
dblDiv(a, b) ==
    IF a.cls = "nan" \/ b.cls = "nan" THEN dblNaN
    ELSE IF a.cls = "inf" THEN (IF b.cls = "inf" THEN dblNaN ELSE dblInf(a.neg # b.neg))
    ELSE IF b.cls = "inf" THEN dblZero
    ELSE IF b.cls = "zero" THEN (IF a.cls = "zero" THEN dblNaN ELSE dblInf(a.neg # b.neg))
    ELSE IF a.cls = "zero" THEN dblZero
    ELSE LET d  == bigDiv(bigShl(a.m, MantissaBits + 3), b.m, MantissaBits + 4)
             st == IF bigCmp(d.r, bigZero) = 0 THEN bigZero ELSE bigOne
         IN  roundBig(a.neg # b.neg, bigAdd(bigShl(d.q, 1), st),
                      a.e - b.e - (MantissaBits + 4))

\* a * b
dblMul(a, b) ==
    IF a.cls = "nan" \/ b.cls = "nan" THEN dblNaN
    ELSE IF a.cls = "inf" \/ b.cls = "inf"
         THEN (IF a.cls = "zero" \/ b.cls = "zero" THEN dblNaN ELSE dblInf(a.neg # b.neg))
    ELSE IF a.cls = "zero" \/ b.cls = "zero" THEN dblZero
    ELSE roundBig(a.neg # b.neg, bigMul(a.m, b.m), a.e + b.e)

\* The exact sum of two values (-1)^neg * m * 2^e, m not necessarily of 53
\* bits, as such a value; the exponents differ by at most 60.
exactSum(a, b) ==
    LET e  == IF a.e < b.e THEN a.e ELSE b.e
        xa == bigShl(a.m, a.e - e)
        xb == bigShl(b.m, b.e - e)
        c  == bigCmp(xa, xb)
    IN  IF a.neg = b.neg THEN [neg |-> a.neg, m |-> bigAdd(xa, xb), e |-> e]
        ELSE IF c >= 0 THEN [neg |-> a.neg, m |-> bigSub(xa, xb), e |-> e]
        ELSE [neg |-> b.neg, m |-> bigSub(xb, xa), e |-> e]

\* a + b
dblAdd(a, b) ==
    IF a.cls = "nan" \/ b.cls = "nan" THEN dblNaN
    ELSE IF a.cls = "inf" THEN (IF b.cls = "inf" /\ a.neg # b.neg THEN dblNaN ELSE a)
    ELSE IF b.cls = "inf" THEN b
    ELSE IF a.cls = "zero" THEN b
    ELSE IF b.cls = "zero" THEN a
    ELSE IF a.e - b.e > 60 THEN a
    ELSE IF b.e - a.e > 60 THEN b
    ELSE LET s == exactSum(a, b)
         IN  IF bigCmp(s.m, bigZero) = 0 THEN dblZero ELSE roundBig(s.neg, s.m, s.e)

\* a - b
dblSub(a, b) == dblAdd(a, dblNeg(b))

\* a < b
dblLessThan(a, b) ==
    IF a.cls = "nan" \/ b.cls = "nan" THEN FALSE
    ELSE IF a.cls = "inf" THEN a.neg /\ ~(b.cls = "inf" /\ b.neg)
    ELSE IF b.cls = "inf" THEN ~b.neg
    ELSE dblLess(a, b)

----------------------------------------------------------------------------
(* The Numbers of the repairer.  A stored coordinate is a JSON number, a   *)
(* binary64 value.  An integer of ordinary size is written as itself: sums, *)
(* differences and products of such integers are exact in binary64 as long *)
(* as they stay below 2^53, which the sizes used here guarantee.  Three    *)
(* further Numbers are written by name: Far and -Far, a finite coordinate  *)
(* whose square exceeds Number.MAX_VALUE, and Infinity.  The names are     *)
(* integers chosen so that the order of the written forms is the order of  *)
(* the Numbers.  The rules below for arithmetic on the named Numbers are   *)
(* what binary64 gives; NumberRulesAgree compares them with the arithmetic *)
(* of the preceding section.                                               *)

\* Far is the Number 2^FarExponent.
FarExponent == 600
Far == 2 ^ 30
Infinity == Far + 1

isOrdinary(n) == -Far < n /\ n < Far

\* a + b.  An ordinary integer is less than half the spacing of the Numbers
\* around Far (2^(FarExponent - 53)), so adding it to Far rounds back to Far.
numAdd(a, b) ==
    IF isOrdinary(a) /\ isOrdinary(b) THEN a + b
    ELSE CASE a = Infinity \/ b = Infinity -> Infinity
           [] a = -b -> 0
           [] isOrdinary(b) -> a
           [] isOrdinary(a) -> b

\* a - b, for finite a and b.
numSub(a, b) ==
    IF isOrdinary(a) /\ isOrdinary(b) THEN a - b
    ELSE CASE a = b -> 0
           [] isOrdinary(b) -> a
           [] isOrdinary(a) -> -b

\* a * b, for finite a and b.  Far * Far = 2^(2 * FarExponent) is beyond
\* Number.MAX_VALUE and rounds to Infinity.
numMul(a, b) ==
    IF isOrdinary(a) /\ isOrdinary(b) THEN a * b
    ELSE CASE a = 0 \/ b = 0 -> 0
           [] a = b -> Infinity
           [] a = 1 -> b
           [] b = 1 -> a

\* a < b: the written forms are ordered as the Numbers are, and Infinity is
\* not less than Infinity.
numLess(a, b) == a < b

\* a <= b (no NaN among the operands)
numLeq(a, b) == ~numLess(b, a)

\* The binary64 value of a written Number.
toNumber(n) ==
    IF n = Infinity THEN dblInf(FALSE)
    ELSE IF n = Far \/ n = -Far
         THEN [cls |-> "num", neg |-> (n < 0), m |-> bigShl(bigOne, MantissaBits - 1),
               e |-> FarExponent - (MantissaBits - 1)]
    ELSE dblFromInt(n)

\* Sample operands: ordinary integers and the named Numbers.
NumberSamples == {-140, -1, 0, 1, 20, 80, 3600, Far, -Far, Infinity}

\* On the samples, wherever a rule above applies, the binary64 arithmetic
\* gives the Number the rule gives.
NumberRulesAgree ==
    \A a, b \in NumberSamples :
        /\ (isOrdinary(a) /\ isOrdinary(b)) \/ a = Infinity \/ b = Infinity \/ a = -b
               \/ isOrdinary(a) \/ isOrdinary(b)
              => dblAdd(toNumber(a), toNumber(b)) = toNumber(numAdd(a, b))
        /\ (a # Infinity /\ b # Infinity /\ (a = b \/ isOrdinary(a) \/ isOrdinary(b)))
              => dblSub(toNumber(a), toNumber(b)) = toNumber(numSub(a, b))
        /\ (a # Infinity /\ b # Infinity
               /\ ((isOrdinary(a) /\ isOrdinary(b)) \/ a = 0 \/ b = 0 \/ a = b \/ a = 1 \/ b = 1))
              => dblMul(toNumber(a), toNumber(b)) = toNumber(numMul(a, b))
        /\ dblLessThan(toNumber(a), toNumber(b)) <=> numLess(a, b)
----------------------------------------------------------------------------
(* Connectivity Repairer.                                                  *)

\* getElementCenter(el): the visual center from the STORED position.
getElementCenter(el) ==
    CASE el.type = "task"    -> [x |-> numAdd(el.position.x, 80), y |-> numAdd(el.position.y, 30)]
      [] el.type = "gateway" -> [x |-> numAdd(el.position.x, 28), y |-> numAdd(el.position.y, 28)]
      [] OTHER               -> [x |-> numAdd(el.position.x, 20), y |-> numAdd(el.position.y, 20)]

\* new Map(ids.map((id, i) => [id, i])).get(id): a later entry overwrites an
\* earlier one, so a duplicated id maps to its LAST index.
indexById(elements, id) ==
    CHOOSE i \in 1..Len(elements) :
        /\ elements[i].id = id
        /\ \A j \in (i+1)..Len(elements) : elements[j].id # id

\* new Map(model.elements.map((e) => [e.id, e])).get(id)
idToElement(elements, id) == elements[indexById(elements, id)]

\* Mutant of pruneConnections: only the source is looked up.
pruneConnections_sourceOnly(elements, connections) ==
    SelectSeq(connections, LAMBDA c : c.source \in ElementIds(elements))

\* model.connections.filter((c) => idToElement.has(c.source) && idToElement.has(c.target))
pruneConnections(elements, connections) ==
    SelectSeq(connections,
              LAMBDA c : c.source \in ElementIds(elements) /\ c.target \in ElementIds(elements))

\* Mutant of buildAdj: the adjacency is directed (adj[b].push(a) forgotten).
RECURSIVE buildAdj_directed(_, _, _)
buildAdj_directed(elements, connections, adj) ==
    IF connections = <<>> THEN adj
    ELSE LET c == Head(connections)
         IN  IF c.source \notin ElementIds(elements) \/ c.target \notin ElementIds(elements)
             THEN buildAdj_directed(elements, Tail(connections), adj)
             ELSE buildAdj_directed(elements, Tail(connections),
                      [adj EXCEPT ![indexById(elements, c.source)] =
                                      Append(@, indexById(elements, c.target))])

\* for (const c of model.connections) { a = indexById.get(c.source); b = indexById.get(c.target);
\*   if (a == null || b == null) continue; adj[a].push(b); adj[b].push(a) }
RECURSIVE buildAdj(_, _, _)
buildAdj(elements, connections, adj) ==
    IF connections = <<>> THEN adj
    ELSE LET c == Head(connections)
         IN  IF c.source \notin ElementIds(elements) \/ c.target \notin ElementIds(elements)
             THEN buildAdj(elements, Tail(connections), adj)
             ELSE LET a  == indexById(elements, c.source)
                      b  == indexById(elements, c.target)
                      a1 == [adj EXCEPT ![a] = Append(@, b)]
                      a2 == [a1 EXCEPT ![b] = Append(@, a)]
                  IN  buildAdj(elements, Tail(connections), a2)

\* for (const w of adj[v]) if (!visited[w]) { visited[w] = true; stack.push(w) }
RECURSIVE pushUnvisited(_, _, _)
pushUnvisited(ws, stack, visited) ==
    IF ws = <<>> THEN [stack |-> stack, visited |-> visited]
    ELSE LET w == Head(ws)
         IN  IF visited[w]
             THEN pushUnvisited(Tail(ws), stack, visited)
             ELSE pushUnvisited(Tail(ws), Append(stack, w), [visited EXCEPT ![w] = TRUE])

\* while (stack.length) { const v = stack.pop(); comp.push(v); ... }
RECURSIVE traverse(_, _, _, _)
traverse(adj, stack, visited, comp) ==
    IF stack = <<>> THEN [comp |-> comp, visited |-> visited]
    ELSE LET v == stack[Len(stack)]
             r == pushUnvisited(adj[v], SubSeq(stack, 1, Len(stack) - 1), visited)
         IN  traverse(adj, r.stack, r.visited, Append(comp, v))

\* for (let i = 0; i < ids.length; i++) { if (visited[i]) continue; ... components.push(comp) }
RECURSIVE findComponents(_, _, _, _)
findComponents(adj, i, visited, components) ==
    IF i > Len(adj) THEN components
    ELSE IF visited[i] THEN findComponents(adj, i + 1, visited, components)
    ELSE LET r == traverse(adj, <<i>>, [visited EXCEPT ![i] = TRUE], <<>>)
         IN  findComponents(adj, i + 1, r.visited, Append(components, r.comp))

\* The components (sequences of element indices) in discovery order.
componentsOf(elements, connections) ==
    LET n   == Len(elements)
        adj == buildAdj(elements, connections, [k \in 1..n |-> <<>>])
    IN  findComponents(adj, 1, [k \in 1..n |-> FALSE], <<>>)

\* components[i].some((idx) => startIds.has(ids[idx]))
hasStart(elements, comp) ==
    \E k \in 1..Len(comp) :
        \E e \in 1..Len(elements) :
            elements[e].type = "start_event" /\ elements[e].id = elements[comp[k]].id

\* Mutant of chooseMain: a tie in size goes to the later component (>= for >).
RECURSIVE chooseMain_lastLargest(_, _, _, _)
chooseMain_lastLargest(elements, components, i, mainIdx) ==
    IF i > Len(components) THEN mainIdx
    ELSE IF hasStart(elements, components[i]) THEN i
    ELSE IF Len(components[i]) >= Len(components[mainIdx])
         THEN chooseMain_lastLargest(elements, components, i + 1, i)
         ELSE chooseMain_lastLargest(elements, components, i + 1, mainIdx)

\* let mainIdx = 0; for (...) { if (hasStart) { mainIdx = i; break }
\*                              if (components[i].length > components[mainIdx].length) mainIdx = i }
RECURSIVE chooseMain(_, _, _, _)
chooseMain(elements, components, i, mainIdx) ==
    IF i > Len(components) THEN mainIdx
    ELSE IF hasStart(elements, components[i]) THEN i
    ELSE IF Len(components[i]) > Len(components[mainIdx])
         THEN chooseMain(elements, components, i + 1, i)
         ELSE chooseMain(elements, components, i + 1, mainIdx)

mainIdxOf(elements, components) == chooseMain(elements, components, 1, 1)

\* components[i].map((ix) => idToElement.get(ids[ix])!)
componentElements(elements, comp) ==
    [k \in 1..Len(comp) |-> idToElement(elements, elements[comp[k]].id)]

\* dx * dx + dy * dy
squaredDistance(a, b) ==
    LET ca == getElementCenter(a)
        cb == getElementCenter(b)
        dx == numSub(ca.x, cb.x)
        dy == numSub(ca.y, cb.y)
    IN  numAdd(numMul(dx, dx), numMul(dy, dy))

\* Mutant of scanComp: a pair as near as the best so far replaces it (<= for <).
RECURSIVE scanComp_lastWins(_, _, _, _)
scanComp_lastWins(a, compEls, j, best) ==
    IF j > Len(compEls) THEN best
    ELSE LET b == compEls[j]
             d == squaredDistance(a, b)
         IN  IF numLeq(d, best.d)
             THEN scanComp_lastWins(a, compEls, j + 1, [found |-> TRUE, d |-> d, a |-> a, b |-> b])
             ELSE scanComp_lastWins(a, compEls, j + 1, best)

\* for (const b of compEls) { ...; if (d < bestD) { bestD = d; bestA = a; bestB = b } }
\* best.found = FALSE stands for bestA = bestB = null.
RECURSIVE scanComp(_, _, _, _)
scanComp(a, compEls, j, best) ==
    IF j > Len(compEls) THEN best
    ELSE LET b == compEls[j]
             d == squaredDistance(a, b)
         IN  IF numLess(d, best.d)
             THEN scanComp(a, compEls, j + 1, [found |-> TRUE, d |-> d, a |-> a, b |-> b])
             ELSE scanComp(a, compEls, j + 1, best)

\* for (const a of mainElements) { const ca = getElementCenter(a); for (const b of compEls) ... }
RECURSIVE scanMain(_, _, _, _)
scanMain(mainElements, compEls, i, best) ==
    IF i > Len(mainElements) THEN best
    ELSE scanMain(mainElements, compEls, i + 1, scanComp(mainElements[i], compEls, 1, best))

\* let bestA = null, bestB = null, bestD = Infinity; then the nested scan.
bestPair(mainElements, compEls) ==
    scanMain(mainElements, compEls, 1,
             [found |-> FALSE, d |-> Infinity, a |-> mainElements[1], b |-> compEls[1]])

\* Mutant of addConnection: the new connection is put first (unshift for push).
addConnection_unshift(connections, source, target) ==
    IF \E k \in 1..Len(connections) :
           connections[k].source = source /\ connections[k].target = target
    THEN connections
    ELSE <<[source |-> source, target |-> target]>> \o connections

\* const addConnection = (source, target) => { if (some identical directed pair) return; push }
addConnection(connections, source, target) ==
    IF \E k \in 1..Len(connections) :
           connections[k].source = source /\ connections[k].target = target
    THEN connections
    ELSE Append(connections, [source |-> source, target |-> target])

\* Mutant of connectPair: equal center-x goes from bestB to bestA (< for <=).
connectPair_strict(connections, bestA, bestB) ==
    IF numLess(getElementCenter(bestA).x, getElementCenter(bestB).x)
    THEN addConnection(connections, bestA.id, bestB.id)
    ELSE addConnection(connections, bestB.id, bestA.id)

\* if (ca.x <= cb.x) addConnection(bestA.id, bestB.id) else addConnection(bestB.id, bestA.id)
connectPair(connections, bestA, bestB) ==
    IF numLeq(getElementCenter(bestA).x, getElementCenter(bestB).x)
    THEN addConnection(connections, bestA.id, bestB.id)
    ELSE addConnection(connections, bestB.id, bestA.id)

\* for (let i = 0; i < components.length; i++) { if (i === mainIdx) continue; ... }
RECURSIVE mergeComponents(_, _, _, _, _)
mergeComponents(elements, components, mainIdx, i, connections) ==
    IF i > Len(components) THEN connections
    ELSE IF i = mainIdx
         THEN mergeComponents(elements, components, mainIdx, i + 1, connections)
    ELSE LET best == bestPair(componentElements(elements, components[mainIdx]),
                              componentElements(elements, components[i]))
         IN  mergeComponents(elements, components, mainIdx, i + 1,
                             IF best.found
                             THEN connectPair(connections, best.a, best.b)
                             ELSE connections)

\* JSON.parse(JSON.stringify(modelIn)): a deep copy that keeps exactly the JSON
\* content; every value of the model is a string or a finite Number, which the
\* round trip reproduces.
jsonClone(m) ==
    [processName |-> m.processName,
     swimlanes   |-> [l \in 1..Len(m.swimlanes) |-> m.swimlanes[l]],
     elements    |-> [e \in 1..Len(m.elements) |-> m.elements[e]],
     connections |-> [c \in 1..Len(m.connections) |-> m.connections[c]]]

ensureSingleConnectedProcess(modelArg) ==
    LET m          == jsonClone(modelArg)
        pruned     == pruneConnections(m.elements, m.connections)
        components == componentsOf(m.elements, pruned)
    IN  IF Len(components) <= 1
        THEN [m EXCEPT !.connections = pruned]
        ELSE [m EXCEPT !.connections =
                 mergeComponents(m.elements, components,
                                 mainIdxOf(m.elements, components), 1, pruned)]

----------------------------------------------------------------------------
(* Input diagrams of the repairer.                                         *)

MaxElems == 3
MaxConns == 2

IdNames == <<"e1", "e2", "e3", "e4", "e5", "e6", "e7", "e8">>
GhostId == "ghost"

\* Stored positions: with x in {0, 60} a task at 0 and an event at 60 share
\* center x = 80, so equal and unequal center-x both occur.
Positions == {[x |-> 0, y |-> 0], [x |-> 60, y |-> 0]}

\* Element sequences of length n. Ids are opaque, so the first occurrence of
\* each id is named in order (e1, e2, ...); a later element may repeat an id
\* (ElementSchema does not ask for uniqueness) or take the next new one.
RECURSIVE ElementSeqs(_)
ElementSeqs(n) ==
    IF n = 0 THEN {<<>>}
    ELSE UNION {
           {Append(s, [id |-> i, type |-> t, label |-> "L", position |-> p]) :
                i \in ElementIds(s) \cup {IdNames[Cardinality(ElementIds(s)) + 1]},
                t \in Types, p \in Positions}
           : s \in ElementSeqs(n - 1)}

RECURSIVE ConnectionSeqs(_, _)
ConnectionSeqs(ends, n) ==
    IF n = 0 THEN {<<>>}
    ELSE LET shorter == ConnectionSeqs(ends, n - 1)
         IN  shorter \cup
             {Append(s, [source |-> a, target |-> b]) :
                  s \in {t \in shorter : Len(t) = n - 1}, a \in ends, b \in ends}

\* Diagrams drawn over a wide area: up to MaxFarElems uniquely named tasks
\* and start events, each at the origin or at x = Far.
MaxFarElems == 3

FarPositions == {[x |-> 0, y |-> 0], [x |-> Far, y |-> 0]}

RECURSIVE FarElementSeqs(_)
FarElementSeqs(n) ==
    IF n = 0 THEN {<<>>}
    ELSE {Append(s, [id |-> IdNames[n], type |-> t, label |-> "L", position |-> p]) :
              s \in FarElementSeqs(n - 1), t \in {"task", "start_event"}, p \in FarPositions}

\* The disjoint-merge scenario: component A = start_event s1 -> task t1 and
\* component B = task t2 -> end_event e1, no connection between them.  The
\* four elements are listed in any order, each stored at one of three places.
ScenarioPositions == Positions \cup FarPositions

ScenarioTypes == [s1 |-> "start_event", t1 |-> "task", t2 |-> "task", e1 |-> "end_event"]

ScenarioOrders ==
    {o \in [1..4 -> DOMAIN ScenarioTypes] : \A i, j \in 1..4 : i # j => o[i] # o[j]}

ScenarioDiagram(order, place, flip) ==
    [processName |-> "Scenario",
     swimlanes   |-> <<>>,
     elements    |-> [k \in 1..4 |->
                         [id |-> order[k], type |-> ScenarioTypes[order[k]], label |-> "L",
                          position |-> place[order[k]]]],
     connections |-> IF flip
                     THEN <<[source |-> "t2", target |-> "e1"], [source |-> "s1", target |-> "t1"]>>
                     ELSE <<[source |-> "s1", target |-> "t1"], [source |-> "t2", target |-> "e1"]>>]

\* A drawn diagram, either bare (no swimlane, unlabelled connections) or
\* decorated (one swimlane listing the elements, every connection labelled).
Diagram(els, cs, decorated) ==
    IF decorated
    THEN [processName |-> "Decorated",
          swimlanes   |-> <<[id |-> "lane-1", label |-> "Lane A",
                             elements |-> [k \in 1..Len(els) |-> els[k].id]]>>,
          elements    |-> els,
          connections |-> [k \in 1..Len(cs) |->
                              [source |-> cs[k].source, target |-> cs[k].target, label |-> "yes"]]]
    ELSE [processName |-> "Bare", swimlanes |-> <<>>, elements |-> els, connections |-> cs]

\* Value of a layout that has not been computed yet.
NoLayout == [computed |-> FALSE, positions |-> <<>>]

EmptyDiagram == [processName |-> "", swimlanes |-> <<>>, elements |-> <<>>, connections |-> <<>>]

\* The element of a getBoundaryPoint call.
BoundaryElement(type) ==
    [id |-> "e1", type |-> type, label |-> "L", position |-> [x |-> 80, y |-> 80]]

NoBoundary == [resolved |-> FALSE, x |-> dblZero, y |-> dblZero]

NoBoundaryCall ==
    [el |-> BoundaryElement("task"), renderPos |-> [x |-> 0, y |-> 0], toward |-> [x |-> 0, y |-> 0],
     caller |-> "none"]

BoundaryIdle ==
    /\ boundaryIn = NoBoundaryCall
    /\ boundaryOut = NoBoundary

LayoutIdle ==
    /\ canvasModel = EmptyDiagram
    /\ layoutPositions = NoLayout
    /\ compiledPositions = NoLayout
    /\ BoundaryIdle

RepairIdle ==
    /\ modelIn = EmptyDiagram
    /\ updated = NotRun
    /\ again = NotRun

InitRepair ==
    /\ LayoutIdle
    /\ AppStarted /\ geminiKeySet = FALSE
    /\ \/ \E n \in 0..MaxElems : \E els \in ElementSeqs(n) :
              \E cs \in ConnectionSeqs(ElementIds(els) \cup {GhostId}, MaxConns) :
                  \E decorated \in BOOLEAN : modelIn = Diagram(els, cs, decorated)
       \/ \E n \in 2..MaxFarElems : \E els \in FarElementSeqs(n) :
              \E cs \in ConnectionSeqs(ElementIds(els), 1) :
                  modelIn = Diagram(els, cs, FALSE)
       \/ \E order \in ScenarioOrders : \E place \in [DOMAIN ScenarioTypes -> ScenarioPositions] :
              \E flip \in BOOLEAN : modelIn = ScenarioDiagram(order, place, flip)
    /\ updated = NotRun
    /\ again = NotRun

Repair ==
    /\ updated = NotRun
    /\ updated' = ensureSingleConnectedProcess(modelIn)
    /\ UNCHANGED <<modelIn, again>>
    /\ UNCHANGED <<layoutVars, serverVars, clientVars, refinedVars>>

RepairAgain ==
    /\ updated # NotRun
    /\ again = NotRun
    /\ again' = ensureSingleConnectedProcess(updated)
    /\ UNCHANGED <<modelIn, updated>>
    /\ UNCHANGED <<layoutVars, serverVars, clientVars, refinedVars>>

NextRepair == Repair \/ RepairAgain

SpecRepair == InitRepair /\ [][NextRepair]_vars

----------------------------------------------------------------------------
(* Lane Layout Engine: Canvas of App.tsx.                                  *)

laneHeight == 140
laneGap == 24
laneHeaderWidth == 120
minElementGap == 32
width == 1200
rightMargin == 32

minX == laneGap + laneHeaderWidth + 16

\* shapeSize(el): the footprint by type.
shapeSize(el) ==
    CASE el.type = "task"    -> [w |-> 160, h |-> 60]
      [] el.type = "gateway" -> [w |-> 56, h |-> 56]
      [] OTHER               -> [w |-> 40, h |-> 40]

\* laneY(index), index counted from 0.
laneY(index) == laneGap + index * (laneHeight + laneGap)

Min(a, b) == IF a <= b THEN a ELSE b
Max(a, b) == IF a >= b THEN a ELSE b

\* Mutant of setPosition: an id that already has a position keeps it.
setPosition_keepFirst(positions, id, p) ==
    IF id \in DOMAIN positions THEN positions ELSE positions @@ (id :> p)

\* positions.set(id, p) on a Map kept as a function from ids to positions.
setPosition(positions, id, p) ==
    IF id \in DOMAIN positions THEN [positions EXCEPT ![id] = p] ELSE positions @@ (id :> p)

\* model.swimlanes.forEach((lane, idx) => lane.elements.forEach((id) => map.set(id, idx))):
\* the index (from 0) of the LAST lane that lists id; -1 stands for "not in the map".
elementIdToLaneIndex(m, id) ==
    LET listing == {l \in 1..Len(m.swimlanes) : id \in {m.swimlanes[l].elements[k] :
                                                        k \in 1..Len(m.swimlanes[l].elements)}}
    IN  IF listing = {} THEN -1
        ELSE (CHOOSE l \in listing : \A o \in listing : o <= l) - 1

\* Mutant of laneRecords: a member id that is not an element id is kept, as
\* an event-sized blank (filter(Boolean) forgotten).
laneRecords_keepMissing(m, laneIndex) ==
    LET laneElems == IF laneIndex + 1 <= Len(m.swimlanes)
                     THEN m.swimlanes[laneIndex + 1].elements ELSE <<>>
    IN  [k \in 1..Len(laneElems) |->
            IF laneElems[k] \in ElementIds(m.elements)
            THEN idToElement(m.elements, laneElems[k])
            ELSE [id |-> laneElems[k], type |-> "start_event", label |-> "",
                  position |-> [x |-> 0, y |-> 0]]]

\* (model.swimlanes[laneIndex]?.elements ?? []).map((id) => idToElement.get(id)).filter(Boolean)
laneRecords(m, laneIndex) ==
    LET laneElems == IF laneIndex + 1 <= Len(m.swimlanes)
                     THEN m.swimlanes[laneIndex + 1].elements ELSE <<>>
        present   == SelectSeq(laneElems, LAMBDA id : id \in ElementIds(m.elements))
    IN  [k \in 1..Len(present) |-> idToElement(m.elements, present[k])]

\* Mutant of packLane: the cursor advances by the width only (gap forgotten).
RECURSIVE packLane_noGap(_, _, _, _, _)
packLane_noGap(records, k, cursorX, laneIndex, positions) ==
    IF k > Len(records) THEN positions
    ELSE LET el   == records[k]
             size == shapeSize(el)
             x    == Min(cursorX, width - rightMargin - size.w)
             y    == laneY(laneIndex) + (laneHeight - size.h) \div 2
         IN  packLane_noGap(records, k + 1, x + size.w, laneIndex,
                            setPosition(positions, el.id, [x |-> x, y |-> y]))

\* Mutant of packLane: only a task is centered in the band, any other element
\* keeps its stored y (as the older build does).
RECURSIVE packLane_storedY(_, _, _, _, _)
packLane_storedY(records, k, cursorX, laneIndex, positions) ==
    IF k > Len(records) THEN positions
    ELSE LET el   == records[k]
             size == shapeSize(el)
             x    == Min(cursorX, width - rightMargin - size.w)
             y    == IF el.type = "task"
                     THEN laneY(laneIndex) + (laneHeight - size.h) \div 2
                     ELSE el.position.y
         IN  packLane_storedY(records, k + 1, x + size.w + minElementGap, laneIndex,
                              setPosition(positions, el.id, [x |-> x, y |-> y]))

\* let cursorX = minX; for (const item of items) { maxX = width - rightMargin - item.w;
\*   x = Math.min(cursorX, maxX); y = item.baseY; cursorX = x + item.w + minElementGap }
\* items.forEach((it) => positions.set(it.el.id, { x: it.x, y: it.y }))
\* (positions are written in item order, so setting them while packing is the same).
RECURSIVE packLane(_, _, _, _, _)
packLane(records, k, cursorX, laneIndex, positions) ==
    IF k > Len(records) THEN positions
    ELSE LET el   == records[k]
             size == shapeSize(el)
             maxX == width - rightMargin - size.w
             x    == Min(cursorX, maxX)
             y    == laneY(laneIndex) + (laneHeight - size.h) \div 2
         IN  packLane(records, k + 1, x + size.w + minElementGap, laneIndex,
                      setPosition(positions, el.id, [x |-> x, y |-> y]))

\* for (let laneIndex = 0; laneIndex < laneCount; laneIndex++) { ... }
RECURSIVE layoutLanes(_, _, _, _)
layoutLanes(m, laneIndex, laneCount, positions) ==
    IF laneIndex >= laneCount THEN positions
    ELSE layoutLanes(m, laneIndex + 1, laneCount,
                     packLane(laneRecords(m, laneIndex), 1, minX, laneIndex, positions))

\* Mutant of layoutFallback: elements that no lane placed get no position.
layoutFallback_skipped(m, e, positions) == positions

\* model.elements.forEach((el) => { if (!positions.has(el.id)) { laneIndex = map.get(el.id) ?? 0; ... } })
RECURSIVE layoutFallback(_, _, _)
layoutFallback(m, e, positions) ==
    IF e > Len(m.elements) THEN positions
    ELSE LET el == m.elements[e]
         IN  IF el.id \in DOMAIN positions
             THEN layoutFallback(m, e + 1, positions)
             ELSE LET found     == elementIdToLaneIndex(m, el.id)
                      laneIndex == IF found = -1 THEN 0 ELSE found
                      y         == laneY(laneIndex) + (laneHeight - shapeSize(el).h) \div 2
                  IN  layoutFallback(m, e + 1, setPosition(positions, el.id, [x |-> minX, y |-> y]))

\* The id -> render position map of Canvas.
layoutMap(m) ==
    layoutFallback(m, 1, layoutLanes(m, 0, Max(Len(m.swimlanes), 1), <<>>))

----------------------------------------------------------------------------
(* Lane Layout Engine, compiled variant: Canvas of App.js, an older build   *)
(* of the same component that is kept beside App.tsx.                       *)

laneGapCompiled == 16
minGapCompiled == 16

minXCompiled == laneGapCompiled + laneHeaderWidth + 16

laneYCompiled(index) == laneGapCompiled + index * (laneHeight + laneGapCompiled)

\* const baseY = el.type === 'task' ? laneY(laneIndex) + (laneHeight - size.h) / 2 : el.position.y
baseYCompiled(el, laneIndex) ==
    IF el.type = "task"
    THEN laneYCompiled(laneIndex) + (laneHeight - shapeSize(el).h) \div 2
    ELSE el.position.y

\* const baseX = Math.max(el.position.x, minX)
baseXCompiled(el) == Max(el.position.x, minXCompiled)

\* items.sort((a, b) => a.baseX - b.baseX): a stable sort, done here by insertion.
RECURSIVE insertByBaseX(_, _)
insertByBaseX(sorted, el) ==
    IF sorted = <<>> THEN <<el>>
    ELSE IF baseXCompiled(Head(sorted)) <= baseXCompiled(el)
         THEN <<Head(sorted)>> \o insertByBaseX(Tail(sorted), el)
         ELSE <<el>> \o sorted

RECURSIVE sortByBaseX(_, _, _)
sortByBaseX(records, k, sorted) ==
    IF k > Len(records) THEN sorted
    ELSE sortByBaseX(records, k + 1, insertByBaseX(sorted, records[k]))

\* x = Math.min(Math.max(item.baseX, cursorX), maxX); cursorX = x + item.w + minGap
RECURSIVE packLaneCompiled(_, _, _, _, _)
packLaneCompiled(items, k, cursorX, laneIndex, positions) ==
    IF k > Len(items) THEN positions
    ELSE LET el   == items[k]
             size == shapeSize(el)
             maxX == width - rightMargin - size.w
             x    == Min(Max(baseXCompiled(el), cursorX), maxX)
             y    == baseYCompiled(el, laneIndex)
         IN  packLaneCompiled(items, k + 1, x + size.w + minGapCompiled, laneIndex,
                              setPosition(positions, el.id, [x |-> x, y |-> y]))

RECURSIVE layoutLanesCompiled(_, _, _, _)
layoutLanesCompiled(m, laneIndex, laneCount, positions) ==
    IF laneIndex >= laneCount THEN positions
    ELSE layoutLanesCompiled(m, laneIndex + 1, laneCount,
             packLaneCompiled(sortByBaseX(laneRecords(m, laneIndex), 1, <<>>),
                              1, minXCompiled, laneIndex, positions))

\* positions.set(el.id, { x: Math.max(el.position.x, minX), y })
RECURSIVE layoutFallbackCompiled(_, _, _)
layoutFallbackCompiled(m, e, positions) ==
    IF e > Len(m.elements) THEN positions
    ELSE LET el == m.elements[e]
         IN  IF el.id \in DOMAIN positions
             THEN layoutFallbackCompiled(m, e + 1, positions)
             ELSE LET found     == elementIdToLaneIndex(m, el.id)
                      laneIndex == IF found = -1 THEN 0 ELSE found
                  IN  layoutFallbackCompiled(m, e + 1,
                          setPosition(positions, el.id,
                                      [x |-> baseXCompiled(el), y |-> baseYCompiled(el, laneIndex)]))

layoutMapCompiled(m) ==
    layoutFallbackCompiled(m, 1,
        layoutLanesCompiled(m, 0, Max(Len(m.swimlanes), 1), <<>>))

----------------------------------------------------------------------------
(* Input diagrams of the layout, and the two renderings.                   *)

MaxLanes == 2
MaxMembers == 3
MaxWide == 6

\* Stored positions of the initial model's first two elements.
StoredPositions == {[x |-> 80, y |-> 80], [x |-> 240, y |-> 70]}

\* n elements e1..en of any types, all stored at the same position.
LayoutElementSeqs(n) ==
    {[k \in 1..n |-> [id |-> IdNames[k], type |-> ty[k], label |-> "L",
                      position |-> [x |-> 80, y |-> 80]]] :
         ty \in [1..n -> Types]}

Lane(members) == [id |-> "lane", label |-> "Lane", elements |-> members]

\* Sequences of `lanes` swimlanes that list at most `budget` member ids in all.
RECURSIVE LaneSeqs(_, _, _)
LaneSeqs(ends, lanes, budget) ==
    IF lanes = 0 THEN {<<>>}
    ELSE UNION {
           {<<Lane(ms)>> \o rest : ms \in [1..len -> ends],
                                   rest \in LaneSeqs(ends, lanes - 1, budget - len)}
           : len \in 0..budget}

InitLayout ==
    /\ RepairIdle
    /\ AppStarted /\ geminiKeySet = FALSE
    /\ layoutPositions = NoLayout
    /\ compiledPositions = NoLayout
    /\ BoundaryIdle
    /\ \/ \E n \in 0..MaxElems : \E els \in LayoutElementSeqs(n) :
             \E l \in 0..MaxLanes :
                 \E lanes \in LaneSeqs(ElementIds(els) \cup {GhostId}, l, MaxMembers) :
                     canvasModel = [processName |-> "P", swimlanes |-> lanes,
                                    elements |-> els, connections |-> <<>>]
       \* one lane that lists more elements than fit across the canvas
       \/ \E n \in (MaxElems + 1)..MaxWide : \E els \in LayoutElementSeqs(n) :
             canvasModel = [processName |-> "P",
                            swimlanes |-> <<Lane([k \in 1..n |-> els[k].id])>>,
                            elements |-> els, connections |-> <<>>]

\* Canvas of App.tsx renders: useMemo computes layoutMap from the model.
Render ==
    /\ ~layoutPositions.computed
    /\ layoutPositions' = [computed |-> TRUE, positions |-> layoutMap(canvasModel)]
    /\ UNCHANGED <<canvasModel, compiledPositions, boundaryIn, boundaryOut>>
    /\ UNCHANGED <<repairVars, serverVars, clientVars, refinedVars>>

\* Canvas of the compiled App.js renders.
RenderCompiled ==
    /\ ~compiledPositions.computed
    /\ compiledPositions' = [computed |-> TRUE, positions |-> layoutMapCompiled(canvasModel)]
    /\ UNCHANGED <<canvasModel, layoutPositions, boundaryIn, boundaryOut>>
    /\ UNCHANGED <<repairVars, serverVars, clientVars, refinedVars>>

NextLayout == Render \/ RenderCompiled

SpecLayout == InitLayout /\ [][NextLayout]_vars

----------------------------------------------------------------------------
(* One diagram through both the repairer and the layout of App.tsx.        *)

MaxCoreElems == 2
MaxCoreMembers == 2

\* Any schema-valid diagram of the sizes above: no or repeated elements, no
\* swimlane, lanes that list missing ids, connections that are self-loops,
\* duplicates or have a missing endpoint.
InitCore ==
    /\ AppStarted /\ geminiKeySet = FALSE
    /\ BoundaryIdle
    /\ \E n \in 0..MaxCoreElems : \E els \in ElementSeqs(n) :
           \E cs \in ConnectionSeqs(ElementIds(els) \cup {GhostId}, MaxConns) :
               \E l \in 0..MaxLanes :
                   \E lanes \in LaneSeqs(ElementIds(els) \cup {GhostId}, l, MaxCoreMembers) :
                       /\ modelIn = [processName |-> "P", swimlanes |-> lanes,
                                     elements |-> els, connections |-> cs]
                       /\ canvasModel = modelIn
    /\ updated = NotRun
    /\ again = NotRun
    /\ layoutPositions = NoLayout
    /\ compiledPositions = NoLayout

NextCore == Repair \/ Render

SpecCore == InitCore /\ [][NextCore]_vars

----------------------------------------------------------------------------
(* Boundary geometry of Canvas (App.tsx).                                  *)

\* getElementCenter(el, renderPos) of App.tsx: the center at a render position.
getElementCenterAt(el, renderPos) ==
    IF el.type = "task" THEN [x |-> renderPos.x + 80, y |-> renderPos.y + 30]
    ELSE IF el.type = "gateway" THEN [x |-> renderPos.x + 28, y |-> renderPos.y + 28]
    ELSE [x |-> renderPos.x + 20, y |-> renderPos.y + 20]

\* floor(sqrt(n)) for n < 2^108, found bit by bit from bit i down.
RECURSIVE bigSqrtFrom(_, _, _)
bigSqrtFrom(n, i, q) ==
    IF i < 0 THEN q
    ELSE LET t == bigAdd(q, bigShl(bigOne, i))
         IN  IF bigCmp(bigMul(t, t), n) <= 0
             THEN bigSqrtFrom(n, i - 1, t)
             ELSE bigSqrtFrom(n, i - 1, q)

\* The Number nearest to sqrt(n) for an integer 0 < n < Base^2.
dblSqrtInt(n) ==
    LET len   == intBitLen(n)
        shift == 2 * MantissaBits + 4 - len - (len % 2)
        big   == bigShl(bigFromInt(n), shift)
        q     == bigSqrtFrom(big, MantissaBits + 1, bigZero)
        st    == IF bigCmp(bigMul(q, q), big) = 0 THEN bigZero ELSE bigOne
    IN  roundBig(FALSE, bigAdd(bigShl(q, 1), st), -(shift \div 2) - 1)

\* The neighbours of a finite positive Number.
dblSucc(a) == roundBig(FALSE, bigAdd(a.m, bigOne), a.e)

dblPred(a) ==
    IF bigBitLen(bigSub(a.m, bigOne)) < MantissaBits
    THEN [a EXCEPT !.m = bigSub(bigShl(a.m, 1), bigOne), !.e = a.e - 1]
    ELSE [a EXCEPT !.m = bigSub(a.m, bigOne)]

\* Math.hypot(dx, dy) for integers: +0 for (0, 0); otherwise the language
\* leaves the result "implementation-approximated": the Number nearest to
\* the square root or one of its neighbours.
hypot(dx, dy) ==
    IF dx = 0 /\ dy = 0 THEN {dblZero}
    ELSE LET s == dblSqrtInt(dx * dx + dy * dy)
         IN  {dblPred(s), s, dblSucc(s)}

\* x || 1
orOne(a) == IF a.cls \in {"zero", "nan"} THEN dblFromInt(1) ELSE a

intAbs(n) == IF n < 0 THEN -n ELSE n

\* { x: c.x + dx * scale, y: c.y + dy * scale }
scaledFromCenter(c, dx, dy, scale) ==
    [x |-> dblAdd(dblFromInt(c.x), dblMul(dblFromInt(dx), scale)),
     y |-> dblAdd(dblFromInt(c.y), dblMul(dblFromInt(dy), scale))]

\* Math.min(a, b)
dblMin(a, b) ==
    IF a.cls = "nan" \/ b.cls = "nan" THEN dblNaN
    ELSE IF dblLess(b, a) THEN b ELSE a

\* Math.min in place of Math.max.
taskScale_min(dx, dy) ==
    dblDiv(dblFromInt(1),
           dblMin(dblDiv(dblAbs(dblFromInt(dx)), dblFromInt(80)),
                  dblDiv(dblAbs(dblFromInt(dy)), dblFromInt(30))))

\* case 'task': 1 / Math.max(Math.abs(dx) / halfWidth, Math.abs(dy) / halfHeight)
taskScale(dx, dy) ==
    dblDiv(dblFromInt(1),
           dblMax(dblDiv(dblAbs(dblFromInt(dx)), dblFromInt(80)),
                  dblDiv(dblAbs(dblFromInt(dy)), dblFromInt(30))))

\* case 'start_event', 'end_event': r / (Math.hypot(dx, dy) || 1), len the hypot
eventScale(len) == dblDiv(dblFromInt(18), orOne(len))

\* Mutant of gatewayScale: the larger of |dx|, |dy| in place of their sum (the
\* outline of a square, as in the task branch).
gatewayScale_max(dx, dy) ==
    dblDiv(dblFromInt(28), orOne(dblFromInt(Max(intAbs(dx), intAbs(dy)))))

\* case 'gateway': a / (Math.abs(dx) + Math.abs(dy) || 1)
gatewayScale(dx, dy) ==
    dblDiv(dblFromInt(28), orOne(dblFromInt(intAbs(dx) + intAbs(dy))))

\* The switch on el.type.
projectOnOutline(el, c, dx, dy, len) ==
    IF el.type = "task" THEN scaledFromCenter(c, dx, dy, taskScale(dx, dy))
    ELSE IF el.type = "gateway" THEN scaledFromCenter(c, dx, dy, gatewayScale(dx, dy))
    ELSE scaledFromCenter(c, dx, dy, eventScale(len))

\* Without `if (dx === 0 && dy === 0) return c`.
getBoundaryPoint_noEarlyReturn(el, renderPos, toward, len) ==
    LET c == getElementCenterAt(el, renderPos)
    IN  projectOnOutline(el, c, toward.x - c.x, toward.y - c.y, len)

\* getBoundaryPoint(el, renderPos, toward); len is what Math.hypot(dx, dy)
\* returns (read by the event branch only).
getBoundaryPoint(el, renderPos, toward, len) ==
    LET c  == getElementCenterAt(el, renderPos)
        dx == toward.x - c.x
        dy == toward.y - c.y
    IN  IF dx = 0 /\ dy = 0 THEN [x |-> dblFromInt(c.x), y |-> dblFromInt(c.y)]
        ELSE projectOnOutline(el, c, dx, dy, len)

\* getElementRenderPosition(el) of Canvas.
getElementRenderPosition(positions, el) ==
    IF el.id \in DOMAIN positions THEN positions[el.id]
    ELSE [x |-> laneGap + laneHeaderWidth + 16, y |-> laneGap]

\* The two getBoundaryPoint calls Canvas makes for connection c of m (both
\* ends exist): <<[el, renderPos, toward] for sp, the same for tp>>.
connectionBoundaryCalls(m, c) ==
    LET positions == layoutMap(m)
        s    == idToElement(m.elements, c.source)
        t    == idToElement(m.elements, c.target)
        sPos == getElementRenderPosition(positions, s)
        tPos == getElementRenderPosition(positions, t)
        sc   == getElementCenterAt(s, sPos)
        tc   == getElementCenterAt(t, tPos)
    IN  <<[el |-> s, renderPos |-> sPos, toward |-> tc],
          [el |-> t, renderPos |-> tPos, toward |-> sc]>>

----------------------------------------------------------------------------
(* Inputs of getBoundaryPoint, and its call.                               *)

MaxSteps == 3
OffsetStepX == 13
OffsetStepY == 7

\* Render positions of the element whose boundary is resolved.
BoundaryPositions == {[x |-> 100, y |-> 100], [x |-> 160, y |-> 64]}

\* Diagrams whose two elements are of one type and in no lane's membership,
\* with a connection between them or from the first to itself.
SamePlaceDiagram(type, target) ==
    [processName |-> "p",
     swimlanes   |-> <<[id |-> "lane-1", label |-> "Lane A", elements |-> <<>>]>>,
     elements    |-> <<[id |-> "e1", type |-> type, label |-> "L", position |-> [x |-> 80, y |-> 80]],
                       [id |-> "e2", type |-> type, label |-> "L", position |-> [x |-> 240, y |-> 70]]>>,
     connections |-> <<[source |-> "e1", target |-> target]>>]

\* Either any element type at a render position with the other center at an
\* offset of the grid from its own center, or a call Canvas makes for the
\* connection of a SamePlaceDiagram.
InitBoundary ==
    /\ RepairIdle
    /\ canvasModel = EmptyDiagram
    /\ layoutPositions = NoLayout
    /\ compiledPositions = NoLayout
    /\ AppStarted /\ geminiKeySet = FALSE
    /\ boundaryOut = NoBoundary
    /\ \/ \E type \in Types : \E renderPos \in BoundaryPositions :
            \E i \in -MaxSteps..MaxSteps : \E j \in -MaxSteps..MaxSteps :
                LET c == getElementCenterAt(BoundaryElement(type), renderPos)
                IN  boundaryIn = [el |-> BoundaryElement(type), renderPos |-> renderPos,
                                  toward |-> [x |-> c.x + i * OffsetStepX, y |-> c.y + j * OffsetStepY],
                                  caller |-> "any"]
       \/ \E type \in Types : \E target \in {"e1", "e2"} : \E k \in 1..2 :
            LET m    == SamePlaceDiagram(type, target)
                call == connectionBoundaryCalls(m, m.connections[1])[k]
            IN  boundaryIn = [el |-> call.el, renderPos |-> call.renderPos, toward |-> call.toward,
                              caller |-> IF target = "e1" THEN "self-loop" ELSE "same place"]

\* The offset d = toward - center of the call.
boundaryOffset ==
    LET c == getElementCenterAt(boundaryIn.el, boundaryIn.renderPos)
    IN  [x |-> boundaryIn.toward.x - c.x, y |-> boundaryIn.toward.y - c.y]

\* getBoundaryPoint(el, renderPos, toward) is called.
ResolveBoundary ==
    /\ ~boundaryOut.resolved
    /\ \E len \in hypot(boundaryOffset.x, boundaryOffset.y) :
          LET b == getBoundaryPoint(boundaryIn.el, boundaryIn.renderPos, boundaryIn.toward, len)
          IN  boundaryOut' = [resolved |-> TRUE, x |-> b.x, y |-> b.y]
    /\ UNCHANGED <<boundaryIn, canvasModel, layoutPositions, compiledPositions>>
    /\ UNCHANGED <<repairVars, serverVars, clientVars, refinedVars>>

NextBoundary == ResolveBoundary

SpecBoundary == InitBoundary /\ [][NextBoundary]_vars

----------------------------------------------------------------------------
(* Server: POST /assistant/execute and the workflow store.                 *)

MaxClock == 2
MaxModelElems == 4
MaxModelConns == 3
MaxWorkflows == 1
MaxVersions == 2
MaxHistory == 2

\* `task-${Date.now()}` for each clock value.
TaskIds == <<"task-1", "task-2", "task-3", "task-4">>

\* let x = 300; while (takenXs.some((tx) => Math.abs(tx - x) < 176)) x += 180
RECURSIVE chooseX(_, _)
chooseX(takenXs, x) ==
    IF \E tx \in takenXs : (IF tx >= x THEN tx - x ELSE x - tx) < 176
    THEN chooseX(takenXs, x + 180)
    ELSE x

\* What the regular expressions of applyInstruction extract from the lowered text:
\*   lane    index (letter - 'a') of "add a task '<label>' in lane <letter>", -1 if no match
\*   connect the text includes "connect after start"
\*   rename  "name the process '<name>'" matched
Instructions ==
    {[lane |-> l, connect |-> c, rename |-> r] : l \in {-1, 0, 5}, c \in BOOLEAN, r \in BOOLEAN}

\* The "add task" step of applyInstruction.
applyAddTask(m, instruction, clock) ==
    IF instruction.lane >= 0 /\ instruction.lane + 1 <= Len(m.swimlanes)
    THEN LET lane    == m.swimlanes[instruction.lane + 1]
             id      == TaskIds[clock]
             takenXs == {m.elements[e].position.x :
                            e \in {k \in 1..Len(m.elements) :
                                      /\ \E j \in 1..Len(lane.elements) : lane.elements[j] = m.elements[k].id
                                      /\ m.elements[k].type = "task"}}
             x       == chooseX(takenXs, 300)
         IN  [m EXCEPT
                !.elements = Append(@, [id |-> id, type |-> "task", label |-> "review",
                                        position |-> [x |-> x, y |-> 0]]),
                !.swimlanes[instruction.lane + 1].elements = Append(@, id)]
    ELSE m

\* The "connect after start" step of applyInstruction.
applyConnect(m, instruction) ==
    LET starts == {k \in 1..Len(m.elements) : m.elements[k].type = "start_event"}
    IN  IF instruction.connect /\ starts # {} /\ m.elements # <<>>
        THEN LET start == m.elements[CHOOSE k \in starts : \A o \in starts : k <= o]
                 last  == m.elements[Len(m.elements)]
             IN  IF start.id # last.id
                 THEN [m EXCEPT !.connections = Append(@, [source |-> start.id, target |-> last.id])]
                 ELSE m
        ELSE m

\* The "name the process" step of applyInstruction.
applyRename(m, instruction) ==
    IF instruction.rename THEN [m EXCEPT !.processName = "renamed"] ELSE m

applyInstruction(current, instruction, clock) ==
    applyRename(applyConnect(applyAddTask(jsonClone(current), instruction, clock), instruction),
                instruction)

\* Schema-valid diagrams that Gemini may return and that any HTTP client may
\* put into the workflow store.
SplitDiagram ==
    [processName |-> "Split",
     swimlanes   |-> <<[id |-> "lane-1", label |-> "Lane A", elements |-> <<"start-1", "task-a">>]>>,
     elements    |-> <<[id |-> "start-1", type |-> "start_event", label |-> "Start",
                        position |-> [x |-> 80, y |-> 80]],
                       [id |-> "task-a", type |-> "task", label |-> "Task",
                        position |-> [x |-> 240, y |-> 70]]>>,
     connections |-> <<>>]

DanglingDiagram ==
    [processName |-> "Dangling",
     swimlanes   |-> <<[id |-> "lane-1", label |-> "Lane A", elements |-> <<"start-1", "task-a">>]>>,
     elements    |-> <<[id |-> "start-1", type |-> "start_event", label |-> "Start",
                        position |-> [x |-> 80, y |-> 80]],
                       [id |-> "task-a", type |-> "task", label |-> "Task",
                        position |-> [x |-> 240, y |-> 70]]>>,
     connections |-> <<[source |-> "start-1", target |-> "task-a"],
                       [source |-> "task-a", target |-> "removed-1"]>>]

Candidates == {SplitDiagram, DanglingDiagram}

\* The tail of POST /assistant/execute: repair, safeParse (which a repaired
\* schema-valid diagram passes), assignment to processModel.
executeResult(candidate) == ensureSingleConnectedProcess(candidate)

\* createWorkflowVersion(workflowId, jsonContent): a new latest version.
createWorkflowVersion(store, id, json) ==
    [store EXCEPT ![id] = Append(@, json)]

\* getWorkflowWithLatestVersion(id).jsonContent
latestVersion(store, id) == store[id][Len(store[id])]

----------------------------------------------------------------------------
(* Server: the handlers of POST /assistant/execute and POST /process/reset, *)
(* step by step.  The server runs one handler at a time until it awaits or  *)
(* returns; the only await of these handlers is the call to Gemini, so      *)
(* other requests are served while an execute request waits for its answer. *)
(* Each request keeps the calls its handler has made so far, in order.      *)

MaxRequests == 2

\* String(req.body?.instruction || '').trim() is empty.
EmptyText == [lane |-> -1, connect |-> FALSE, rename |-> FALSE, empty |-> TRUE]

\* A schema-valid answer with one coordinate that is Far.
FarSplitDiagram ==
    [SplitDiagram EXCEPT !.processName = "FarSplit", !.elements[2].position.x = Far]

\* An answer that is JSON but not of the schema: an element type outside the enum.
MalformedDiagram ==
    [SplitDiagram EXCEPT !.processName = "Malformed", !.elements[2].type = "subprocess"]

\* No usable answer: the HTTP call failed, the text is empty or is not JSON.
NoAnswer == [processName |-> "<no answer>", swimlanes |-> <<>>, elements |-> <<>>, connections |-> <<>>]

\* What a call to Gemini may end with.
GeminiAnswers == Candidates \cup {FarSplitDiagram, MalformedDiagram, NoAnswer}

Called(name, arg, ok) == [call |-> name, arg |-> arg, ok |-> ok]

\* From "updated = ensureSingleConnectedProcess(updated)" to the response:
\* the calls made, the status, and processModel afterwards.
executeTail(current, candidate, repaired) ==
    LET success == IsDiagram(repaired)
    IN  [trace        |-> <<Called("ensureSingleConnectedProcess", candidate, TRUE),
                            Called("ProcessSchema.safeParse", repaired, success)>>,
         status       |-> IF success THEN 200 ELSE 422,
         processModel |-> IF success THEN repaired ELSE current]

\* The handler from applyInstruction(processModel, instruction) on, given the
\* candidate it returned and what the repairer made of it.
executeByRules(current, candidate, repaired) ==
    [executeTail(current, candidate, repaired)
        EXCEPT !.trace = <<Called("applyInstruction", current, TRUE)>> \o @]

\* The model stays within the sizes of this model when a rule is applied.
RoomForRules ==
    /\ Len(processModel.elements) < MaxModelElems
    /\ Len(processModel.connections) < MaxModelConns

\* POST /assistant/execute without an instruction: 400.
ExecuteEmpty ==
    /\ Len(requests) < MaxRequests
    /\ requests' = Append(requests, [kind |-> "execute", instruction |-> EmptyText, pc |-> "done",
                                     status |-> 400, trace |-> <<>>])
    /\ UNCHANGED serverVars
    /\ UNCHANGED <<repairVars, layoutVars, clientVars, storeVars, sessionVars>>

\* POST /assistant/execute on a server without GEMINI_API_KEY: the handler
\* runs to its response without awaiting.
ExecuteRules ==
    /\ ~geminiKeySet
    /\ Len(requests) < MaxRequests
    /\ RoomForRules
    /\ \E instruction \in Instructions :
        \E candidate \in {applyInstruction(processModel, instruction, now)} :
        \E repaired \in {ensureSingleConnectedProcess(candidate)} :
          LET done == executeByRules(processModel, candidate, repaired)
          IN  /\ processModel' = done.processModel
              /\ requests' = Append(requests, [kind |-> "execute", instruction |-> instruction,
                                               pc |-> "done", status |-> done.status,
                                               trace |-> done.trace])
    /\ UNCHANGED <<geminiKeySet, now, workflows>>
    /\ UNCHANGED <<repairVars, layoutVars, clientVars, storeVars, sessionVars>>

\* POST /assistant/execute on a server with GEMINI_API_KEY: the handler calls
\* proposeWithGemini(processModel, instruction) and awaits the HTTP call.
ExecuteGemini ==
    /\ geminiKeySet
    /\ Len(requests) < MaxRequests
    /\ \E instruction \in Instructions :
          requests' = Append(requests, [kind |-> "execute", instruction |-> instruction,
                                        pc |-> "gemini", status |-> 0,
                                        trace |-> <<Called("proposeWithGemini", processModel, TRUE)>>])
    /\ UNCHANGED serverVars
    /\ UNCHANGED <<repairVars, layoutVars, clientVars, storeVars, sessionVars>>

\* Gemini's answer arrives and passes ProcessSchema.parse: it is the candidate.
GeminiAnswersValid(r) ==
    /\ requests[r].pc = "gemini"
    /\ \E answer \in GeminiAnswers :
          /\ answer # NoAnswer /\ IsDiagram(answer)
          /\ \E repaired \in {ensureSingleConnectedProcess(answer)} :
             LET tail == executeTail(processModel, answer, repaired)
             IN  /\ processModel' = tail.processModel
                 /\ requests' = [requests EXCEPT ![r].pc = "done", ![r].status = tail.status,
                                    ![r].trace = @ \o <<Called("ProcessSchema.parse", answer, TRUE)>>
                                                   \o tail.trace]
    /\ UNCHANGED <<geminiKeySet, now, workflows>>
    /\ UNCHANGED <<repairVars, layoutVars, clientVars, storeVars, sessionVars>>

\* The call to Gemini throws, or its answer fails ProcessSchema.parse, which
\* throws: the catch block falls back to applyInstruction(processModel,
\* instruction) on the processModel of that moment.  (applyInstruction does
\* not throw, so the 500 response of the inner catch is never sent.)
GeminiFails(r) ==
    /\ requests[r].pc = "gemini"
    /\ RoomForRules
    /\ \E answer \in GeminiAnswers :
          /\ answer = NoAnswer \/ ~IsDiagram(answer)
          /\ \E candidate \in {applyInstruction(processModel, requests[r].instruction, now)} :
             \E repaired \in {ensureSingleConnectedProcess(candidate)} :
             LET done   == executeByRules(processModel, candidate, repaired)
                 parsed == IF answer = NoAnswer THEN <<>>
                           ELSE <<Called("ProcessSchema.parse", answer, FALSE)>>
             IN  /\ processModel' = done.processModel
                 /\ requests' = [requests EXCEPT ![r].pc = "done", ![r].status = done.status,
                                    ![r].trace = @ \o parsed \o done.trace]
    /\ UNCHANGED <<geminiKeySet, now, workflows>>
    /\ UNCHANGED <<repairVars, layoutVars, clientVars, storeVars, sessionVars>>

\* POST /process/reset
ProcessReset ==
    /\ Len(requests) < MaxRequests
    /\ processModel' = initialModel
    /\ requests' = Append(requests, [kind |-> "reset", instruction |-> EmptyText, pc |-> "done",
                                     status |-> 200, trace |-> <<>>])
    /\ UNCHANGED <<geminiKeySet, now, workflows>>
    /\ UNCHANGED <<repairVars, layoutVars, clientVars, storeVars, sessionVars>>

\* Time passes on the server.
Tick ==
    /\ now < MaxClock
    /\ now' = now + 1
    /\ UNCHANGED <<geminiKeySet, processModel, workflows>>
    /\ UNCHANGED <<repairVars, layoutVars, clientVars, refinedVars>>

InitExecute ==
    /\ RepairIdle
    /\ LayoutIdle
    /\ AppStarted
    /\ geminiKeySet \in BOOLEAN

NextExecute ==
    \/ ExecuteEmpty
    \/ ExecuteRules
    \/ ExecuteGemini
    \/ \E r \in DOMAIN requests : GeminiAnswersValid(r)
    \/ \E r \in DOMAIN requests : GeminiFails(r)
    \/ ProcessReset
    \/ Tick

SpecExecute == InitExecute /\ [][NextExecute]_vars

----------------------------------------------------------------------------
(* Client: App of App.tsx.  Every action below is one complete round trip: *)
(* the request, the server's handler and the client's continuation run     *)
(* without another event in between.                                       *)

\* Mutant of updateModelWithHistory: the new model is pushed onto the whole
\* history (the slice forgotten).
updateModelWithHistory_noSlice(hist, index, newModel) ==
    LET newHistory == Append(hist, newModel)
    IN  [model |-> newModel, history |-> newHistory, historyIndex |-> Len(newHistory) - 1]

\* updateModelWithHistory(newModel): [model, history, historyIndex] afterwards.
updateModelWithHistory(hist, index, newModel) ==
    LET newHistory == Append(SubSeq(hist, 1, index + 1), newModel)
    IN  [model |-> newModel, history |-> newHistory, historyIndex |-> Len(newHistory) - 1]

\* scheduleSave(id, json) arms (or re-arms) the timer; null id: nothing is scheduled.
scheduleSave(pending, id, json) ==
    IF id # 0 THEN [id |-> id, json |-> json] ELSE pending

\* The client's continuation of sendInstruction once the response `data` is in.
receiveInstructionResult(data) ==
    LET u == updateModelWithHistory(history, historyIndex, data)
    IN  /\ model' = u.model
        /\ history' = u.history
        /\ historyIndex' = u.historyIndex
        /\ pendingSave' = scheduleSave(pendingSave, activeWorkflowId, data)
        /\ UNCHANGED activeWorkflowId

\* sendInstruction(text), server with GEMINI_API_KEY: Gemini returns a
\* schema-valid candidate.
SendInstructionGemini ==
    /\ geminiKeySet
    /\ historyIndex + 1 < MaxHistory
    /\ \E candidate \in Candidates :
          /\ processModel' = executeResult(candidate)
          /\ receiveInstructionResult(executeResult(candidate))
    /\ UNCHANGED <<geminiKeySet, now, workflows>>
    /\ UNCHANGED <<repairVars, layoutVars, refinedVars>>

\* sendInstruction(text), rule-based: no key, or Gemini failed and the catch
\* block falls back to applyInstruction.
SendInstructionRules ==
    /\ historyIndex + 1 < MaxHistory
    /\ Len(processModel.elements) < MaxModelElems
    /\ Len(processModel.connections) < MaxModelConns
    /\ \E instruction \in Instructions :
          LET result == executeResult(applyInstruction(processModel, instruction, now))
          IN  /\ processModel' = result
              /\ receiveInstructionResult(result)
    /\ UNCHANGED <<geminiKeySet, now, workflows>>
    /\ UNCHANGED <<repairVars, layoutVars, refinedVars>>

\* goBackInHistory(): [historyIndex, model, pendingSave] afterwards.
goBackInHistory(hist, index, mdl, pending, active) ==
    IF index > 0
    THEN LET newIndex == index - 1
         IN  [historyIndex |-> newIndex, model |-> hist[newIndex + 1],
              pendingSave |-> scheduleSave(pending, active, hist[newIndex + 1])]
    ELSE [historyIndex |-> index, model |-> mdl, pendingSave |-> pending]

\* goForwardInHistory(): [historyIndex, model, pendingSave] afterwards.
goForwardInHistory(hist, index, mdl, pending, active) ==
    IF index < Len(hist) - 1
    THEN LET newIndex == index + 1
         IN  [historyIndex |-> newIndex, model |-> hist[newIndex + 1],
              pendingSave |-> scheduleSave(pending, active, hist[newIndex + 1])]
    ELSE [historyIndex |-> index, model |-> mdl, pendingSave |-> pending]

\* The undo button: goBackInHistory().
GoBackInHistory ==
    /\ LET after == goBackInHistory(history, historyIndex, model, pendingSave, activeWorkflowId)
       IN  /\ historyIndex' = after.historyIndex
           /\ model' = after.model
           /\ pendingSave' = after.pendingSave
    /\ UNCHANGED <<history, activeWorkflowId>>
    /\ UNCHANGED <<repairVars, layoutVars, serverVars, refinedVars>>

\* The redo button: goForwardInHistory().
GoForwardInHistory ==
    /\ LET after == goForwardInHistory(history, historyIndex, model, pendingSave, activeWorkflowId)
       IN  /\ historyIndex' = after.historyIndex
           /\ model' = after.model
           /\ pendingSave' = after.pendingSave
    /\ UNCHANGED <<history, activeWorkflowId>>
    /\ UNCHANGED <<repairVars, layoutVars, serverVars, refinedVars>>

\* The debounce timer fires: PUT /api/workflows/:id { json } adds a version.
SaveTimerFires ==
    /\ pendingSave # NoSave
    /\ pendingSave.id \in 1..Len(workflows)
    /\ Len(workflows[pendingSave.id]) < MaxVersions
    /\ workflows' = createWorkflowVersion(workflows, pendingSave.id, pendingSave.json)
    /\ pendingSave' = NoSave
    /\ UNCHANGED <<geminiKeySet, now, processModel>>
    /\ UNCHANGED <<model, history, historyIndex, activeWorkflowId>>
    /\ UNCHANGED <<repairVars, layoutVars, refinedVars>>

\* Any HTTP client: POST /api/workflows { name, json } with a schema-valid json;
\* CreateWorkflowSchema.parse is the only check before the version is stored.
ApiPostWorkflow ==
    /\ Len(workflows) < MaxWorkflows
    /\ \E json \in Candidates : workflows' = Append(workflows, <<json>>)
    /\ UNCHANGED <<geminiKeySet, now, processModel>>
    /\ UNCHANGED <<repairVars, layoutVars, clientVars, refinedVars>>

\* Any HTTP client: PUT /api/workflows/:id { json } with a schema-valid json.
ApiPutWorkflow ==
    /\ \E id \in 1..Len(workflows) : \E json \in Candidates :
          /\ Len(workflows[id]) < MaxVersions
          /\ workflows' = createWorkflowVersion(workflows, id, json)
    /\ UNCHANGED <<geminiKeySet, now, processModel>>
    /\ UNCHANGED <<repairVars, layoutVars, clientVars, refinedVars>>

\* The "New" button: POST /api/workflows with initialModel; the response has
\* `json` but no `jsonContent`, so ProcessSchema.parse(created.jsonContent)
\* throws after setActiveWorkflowId and the rest of the handler is not run.
CreateWorkflow ==
    /\ Len(workflows) < MaxWorkflows
    /\ workflows' = Append(workflows, <<initialModel>>)
    /\ activeWorkflowId' = Len(workflows) + 1
    /\ UNCHANGED <<geminiKeySet, now, processModel>>
    /\ UNCHANGED <<model, history, historyIndex, pendingSave>>
    /\ UNCHANGED <<repairVars, layoutVars, refinedVars>>

\* The client's continuation of loadWorkflow(id) once the GET response is in.
showWorkflow(store, id) ==
    LET parsed == latestVersion(store, id)
    IN  /\ activeWorkflowId' = id
        /\ history' = <<parsed>>
        /\ historyIndex' = 0
        /\ model' = parsed

\* loadWorkflow(id): a click on a workflow of the library.
LoadWorkflow ==
    /\ \E id \in 1..Len(workflows) : showWorkflow(workflows, id)
    /\ UNCHANGED pendingSave
    /\ UNCHANGED <<repairVars, layoutVars, serverVars, refinedVars>>

\* restoreToVersion(workflowId, versionNumber) on the version panel of the
\* active workflow: POST .../restore/:n stores version n again as the latest
\* version, then loadWorkflow(activeWorkflowId).
RestoreToVersion ==
    /\ activeWorkflowId \in 1..Len(workflows)
    /\ Len(workflows[activeWorkflowId]) < MaxVersions
    /\ \E n \in 1..Len(workflows[activeWorkflowId]) :
          LET store == createWorkflowVersion(workflows, activeWorkflowId,
                                             workflows[activeWorkflowId][n])
          IN  /\ workflows' = store
              /\ showWorkflow(store, activeWorkflowId)
    /\ UNCHANGED pendingSave
    /\ UNCHANGED <<geminiKeySet, now, processModel>>
    /\ UNCHANGED <<repairVars, layoutVars, refinedVars>>

\* deleteWorkflow(workflowId), confirmed: DELETE /api/workflows/:id sets the
\* isDeleted flag.  The client then compares activeWorkflowId, the id string
\* the server sent, with parseInt(...) of the id, a number, by ===: the two
\* are never equal, so the branch that resets the model and the history is
\* not taken.
DeleteWorkflow ==
    /\ \E id \in 1..Len(workflows) :
          /\ id \notin deleted
          /\ deleted' = deleted \cup {id}
    /\ UNCHANGED <<versionRows, dbRequests>>
    /\ UNCHANGED <<execVars, sessionVars>>
    /\ UNCHANGED <<repairVars, layoutVars, serverVars, clientVars>>

InitClient ==
    /\ RepairIdle
    /\ LayoutIdle
    /\ AppStarted
    /\ geminiKeySet \in BOOLEAN

NextClient ==
    \/ SendInstructionGemini
    \/ SendInstructionRules
    \/ Tick
    \/ GoBackInHistory
    \/ GoForwardInHistory
    \/ SaveTimerFires
    \/ ApiPostWorkflow
    \/ ApiPutWorkflow
    \/ CreateWorkflow
    \/ LoadWorkflow
    \/ RestoreToVersion
    \/ DeleteWorkflow

SpecClient == InitClient /\ [][NextClient]_vars

----------------------------------------------------------------------------
(* Client: a session of App in which requests overlap.  sendInstruction    *)
(* runs up to its await and continues when the response arrives, with the  *)
(* history, historyIndex and activeWorkflowId of the render that called    *)
(* it; the debounce timer, its PUT and the PUT's response are separate     *)
(* steps.  The server has GEMINI_API_KEY set.                              *)

MaxInFlight == 2
MaxUserActions == 4
MaxSessionWorkflows == 2
MaxSessionHistory == 3

\* The closure of a sendInstruction call.
Closure == [history |-> history, historyIndex |-> historyIndex,
            activeWorkflowId |-> activeWorkflowId]

RemoveAt(seq, k) == SubSeq(seq, 1, k - 1) \o SubSeq(seq, k + 1, Len(seq))

\* Mutant of clearTimer: the previous timer is left armed.
clearTimer_never(saves) == saves

\* if (saveTimer.current) window.clearTimeout(saveTimer.current): the timer
\* of the latest scheduleSave call is cancelled unless it has already fired.
clearTimer(saves) ==
    IF saves # <<>> /\ saves[Len(saves)].state = "armed"
    THEN [saves EXCEPT ![Len(saves)].state = "cancelled"]
    ELSE saves

\* scheduleSave(id, json) on the refs and the status.
ScheduleSave(id, json) ==
    /\ saving' = "saving"
    /\ saveCalls' = Append(clearTimer(saveCalls), [id |-> id, json |-> json, state |-> "armed"])
    /\ pendingSave' = [id |-> id, json |-> json]

\* if (activeWorkflowId) scheduleSave(activeWorkflowId, json)
ScheduleSaveIfActive(id, json) ==
    IF id # 0 THEN ScheduleSave(id, json)
              ELSE UNCHANGED <<saving, saveCalls, pendingSave>>

\* pendingSaveRef.current: the arguments of the latest scheduleSave call.
pendingSaveRef ==
    IF saveCalls = <<>> THEN NoSave
    ELSE [id |-> saveCalls[Len(saveCalls)].id, json |-> saveCalls[Len(saveCalls)].json]

UserActs ==
    /\ userActions < MaxUserActions
    /\ userActions' = userActions + 1

\* Enter in the input (or the Send button while no request is loading):
\* sendInstruction(text) up to `await fetch`.
SessionSend ==
    /\ UserActs
    /\ Len(inFlight) < MaxInFlight
    /\ historyIndex + 1 < MaxSessionHistory
    /\ inFlight' = Append(inFlight, Closure)
    /\ UNCHANGED <<saveCalls, saving>>
    /\ UNCHANGED <<execVars, storeVars>>
    /\ UNCHANGED <<repairVars, layoutVars, serverVars, clientVars>>

\* The server handles the request of call k (Gemini returns a schema-valid
\* candidate) and sendInstruction continues after its awaits.
SessionReceive(k) ==
    /\ \E candidate \in Candidates :
          LET data == executeResult(candidate)
              u == updateModelWithHistory(inFlight[k].history, inFlight[k].historyIndex, data)
          IN  /\ processModel' = data
              /\ model' = u.model
              /\ history' = u.history
              /\ historyIndex' = u.historyIndex
              /\ ScheduleSaveIfActive(inFlight[k].activeWorkflowId, data)
    /\ inFlight' = RemoveAt(inFlight, k)
    /\ UNCHANGED <<activeWorkflowId, userActions>>
    /\ UNCHANGED <<geminiKeySet, now, workflows>>
    /\ UNCHANGED <<execVars, storeVars>>
    /\ UNCHANGED <<repairVars, layoutVars>>

\* The undo button, enabled while historyIndex > 0.
SessionUndo ==
    /\ UserActs
    /\ historyIndex > 0
    /\ LET after == goBackInHistory(history, historyIndex, model, pendingSave, activeWorkflowId)
       IN  /\ historyIndex' = after.historyIndex
           /\ model' = after.model
           /\ ScheduleSaveIfActive(activeWorkflowId, after.model)
    /\ UNCHANGED <<history, activeWorkflowId, inFlight>>
    /\ UNCHANGED <<execVars, storeVars>>
    /\ UNCHANGED <<repairVars, layoutVars, serverVars>>

\* The redo button, enabled while historyIndex < history.length - 1.
SessionRedo ==
    /\ UserActs
    /\ historyIndex < Len(history) - 1
    /\ LET after == goForwardInHistory(history, historyIndex, model, pendingSave, activeWorkflowId)
       IN  /\ historyIndex' = after.historyIndex
           /\ model' = after.model
           /\ ScheduleSaveIfActive(activeWorkflowId, after.model)
    /\ UNCHANGED <<history, activeWorkflowId, inFlight>>
    /\ UNCHANGED <<execVars, storeVars>>
    /\ UNCHANGED <<repairVars, layoutVars, serverVars>>

\* The "New" button (see CreateWorkflow).
SessionCreateWorkflow ==
    /\ UserActs
    /\ Len(workflows) < MaxSessionWorkflows
    /\ workflows' = Append(workflows, <<initialModel>>)
    /\ activeWorkflowId' = Len(workflows) + 1
    /\ UNCHANGED <<geminiKeySet, now, processModel>>
    /\ UNCHANGED <<model, history, historyIndex, pendingSave>>
    /\ UNCHANGED <<inFlight, saveCalls, saving>>
    /\ UNCHANGED <<execVars, storeVars>>
    /\ UNCHANGED <<repairVars, layoutVars>>

\* loadWorkflow(id): a click on a workflow of the library.
SessionLoadWorkflow ==
    /\ UserActs
    /\ \E id \in 1..Len(workflows) : showWorkflow(workflows, id)
    /\ UNCHANGED pendingSave
    /\ UNCHANGED <<inFlight, saveCalls, saving>>
    /\ UNCHANGED <<execVars, storeVars>>
    /\ UNCHANGED <<repairVars, layoutVars, serverVars>>

\* The timer of scheduleSave call c fires: the callback sends its PUT.
SaveTimeout(c) ==
    /\ saveCalls[c].state = "armed"
    /\ saveCalls' = [saveCalls EXCEPT ![c].state = "sent"]
    /\ pendingSave' = NoSave
    /\ UNCHANGED <<model, history, historyIndex, activeWorkflowId>>
    /\ UNCHANGED <<inFlight, saving, userActions>>
    /\ UNCHANGED <<execVars, storeVars>>
    /\ UNCHANGED <<repairVars, layoutVars, serverVars>>

\* PUT /api/workflows/:id of call c stores a version and answers 200; the
\* callback sets the status.
SavePutOk(c) ==
    /\ saveCalls[c].state = "sent"
    /\ saveCalls' = [saveCalls EXCEPT ![c].state = "accepted"]
    /\ workflows' = createWorkflowVersion(workflows, saveCalls[c].id, saveCalls[c].json)
    /\ saving' = "saved"
    /\ UNCHANGED <<geminiKeySet, now, processModel>>
    /\ UNCHANGED <<inFlight, userActions>>
    /\ UNCHANGED <<execVars, storeVars>>
    /\ UNCHANGED <<repairVars, layoutVars, clientVars>>

\* The PUT of call c fails (the network, or a response that is not ok): the
\* catch block sets the status.
SavePutFails(c) ==
    /\ saveCalls[c].state = "sent"
    /\ saveCalls' = [saveCalls EXCEPT ![c].state = "failed"]
    /\ saving' = "error"
    /\ UNCHANGED <<inFlight, userActions>>
    /\ UNCHANGED <<execVars, storeVars>>
    /\ UNCHANGED <<repairVars, layoutVars, serverVars, clientVars>>

\* The Retry button of the save error toast.
SessionRetry ==
    /\ UserActs
    /\ saving = "error"
    /\ pendingSaveRef # NoSave
    /\ ScheduleSave(pendingSaveRef.id, pendingSaveRef.json)
    /\ UNCHANGED <<model, history, historyIndex, activeWorkflowId>>
    /\ UNCHANGED inFlight
    /\ UNCHANGED <<execVars, storeVars>>
    /\ UNCHANGED <<repairVars, layoutVars, serverVars>>

InitSession ==
    /\ RepairIdle
    /\ LayoutIdle
    /\ AppStarted
    /\ geminiKeySet = TRUE

NextSession ==
    \/ SessionSend
    \/ \E k \in DOMAIN inFlight : SessionReceive(k)
    \/ SessionUndo
    \/ SessionRedo
    \/ SessionCreateWorkflow
    \/ SessionLoadWorkflow
    \/ \E c \in DOMAIN saveCalls : SaveTimeout(c)
    \/ \E c \in DOMAIN saveCalls : SavePutOk(c)
    \/ \E c \in DOMAIN saveCalls : SavePutFails(c)
    \/ SessionRetry

SpecSession == InitSession /\ [][NextSession]_vars

\* The event loop runs a timer that stays armed, and every PUT is answered or
\* fails.
FairSession ==
    /\ \A c \in 1..MaxUserActions : WF_vars(c \in DOMAIN saveCalls /\ SaveTimeout(c))
    /\ \A c \in 1..MaxUserActions :
          WF_vars(c \in DOMAIN saveCalls /\ (SavePutOk(c) \/ SavePutFails(c)))

SpecSessionFair == SpecSession /\ FairSession

----------------------------------------------------------------------------
(* Server: the version table under concurrent requests.  PUT               *)
(* /api/workflows/:id and POST /api/workflows/:id/restore/:versionNumber   *)
(* run up to each await of createWorkflowVersion; other requests are       *)
(* served in between.                                                      *)

MaxDbRequests == 3
MaxDbWorkflows == 2

\* The bodies of the PUT requests.
PutBodies == Candidates \cup {FarSplitDiagram}

\* JSON.stringify writes a Number that is not finite as null.
jsonNumber(n) == IF n = Infinity \/ n = -Infinity THEN "null" ELSE n

\* JSON.stringify(jsonContent): the text, given by what it says.
jsonStringify(json) ==
    [json EXCEPT !.elements =
        [k \in DOMAIN @ |->
            [@[k] EXCEPT !.position = [x |-> jsonNumber(@.x), y |-> jsonNumber(@.y)]]]]

\* JSON.parse(version.jsonContent): a Number as written, null as null.
jsonParse(text) == text

RowsOf(rows, id) == {row \in rows : row.workflowId = id}

\* (latestVersion?.versionNumber || 0) + 1 after findFirst ... orderBy desc.
nextVersionNumber(rows, id) ==
    IF RowsOf(rows, id) = {} THEN 1
    ELSE (CHOOSE n \in {row.versionNumber : row \in RowsOf(rows, id)} :
             \A row \in RowsOf(rows, id) : row.versionNumber <= n) + 1

\* Mutant of violatesUniqueIndex: the table has no unique index.
violatesUniqueIndex_never(rows, id, number) == FALSE

\* The unique index on (workflow_id, version_number) rejects the insert.
violatesUniqueIndex(rows, id, number) ==
    \E row \in rows : row.workflowId = id /\ row.versionNumber = number

DbRequest(kind, id, n, json) ==
    [kind |-> kind, id |-> id, n |-> n, jsonContent |-> json,
     pc |-> "findFirst", next |-> 0, status |-> 0]

\* POST /api/workflows: a new workflow with its initial version.  No other
\* request can name the workflow before the response carries its id.
DbPostWorkflow ==
    /\ \E json \in PutBodies :
          LET id == Cardinality({row.workflowId : row \in versionRows}) + 1
          IN  /\ id <= MaxDbWorkflows
              /\ versionRows' = versionRows \cup
                    {[workflowId |-> id, versionNumber |-> nextVersionNumber(versionRows, id),
                      jsonContent |-> jsonStringify(json)]}
    /\ UNCHANGED <<deleted, dbRequests>>
    /\ UNCHANGED <<execVars, sessionVars>>
    /\ UNCHANGED <<repairVars, layoutVars, serverVars, clientVars>>

\* PUT /api/workflows/:id { json } up to the first await of
\* createWorkflowVersion: the workflow is found and its metadata rewritten.
PutRequest ==
    /\ Len(dbRequests) < MaxDbRequests
    /\ \E id \in {row.workflowId : row \in versionRows} : \E json \in PutBodies :
          dbRequests' = Append(dbRequests, DbRequest("put", id, 0, json))
    /\ UNCHANGED <<deleted, versionRows>>
    /\ UNCHANGED <<execVars, sessionVars>>
    /\ UNCHANGED <<repairVars, layoutVars, serverVars, clientVars>>

\* POST /api/workflows/:id/restore/:versionNumber up to the first await of
\* createWorkflowVersion: version n is read (404 if there is none).
RestoreRequest ==
    /\ Len(dbRequests) < MaxDbRequests
    /\ \E id \in {row.workflowId : row \in versionRows} : \E n \in 1..(MaxDbRequests + 1) :
          LET found == {row \in RowsOf(versionRows, id) : row.versionNumber = n}
          IN  dbRequests' = Append(dbRequests,
                  IF found = {}
                  THEN [DbRequest("restore", id, n, NotRun) EXCEPT !.pc = "done", !.status = 404]
                  ELSE DbRequest("restore", id, n, jsonParse((CHOOSE row \in found : TRUE).jsonContent)))
    /\ UNCHANGED <<deleted, versionRows>>
    /\ UNCHANGED <<execVars, sessionVars>>
    /\ UNCHANGED <<repairVars, layoutVars, serverVars, clientVars>>

\* createWorkflowVersion, first await: findFirst returns the latest version.
FindLatestVersion(r) ==
    /\ dbRequests[r].pc = "findFirst"
    /\ dbRequests' = [dbRequests EXCEPT ![r].pc = "create",
                                        ![r].next = nextVersionNumber(versionRows, dbRequests[r].id)]
    /\ UNCHANGED <<deleted, versionRows>>
    /\ UNCHANGED <<execVars, sessionVars>>
    /\ UNCHANGED <<repairVars, layoutVars, serverVars, clientVars>>

\* createWorkflowVersion, second await: the insert.  A rejected insert throws;
\* the catch block of PUT answers 400, that of restore 500.
CreateVersion(r) ==
    /\ dbRequests[r].pc = "create"
    /\ IF violatesUniqueIndex(versionRows, dbRequests[r].id, dbRequests[r].next)
       THEN /\ dbRequests' = [dbRequests EXCEPT ![r].pc = "done",
                                ![r].status = IF dbRequests[r].kind = "put" THEN 400 ELSE 500]
            /\ UNCHANGED versionRows
       ELSE /\ dbRequests' = [dbRequests EXCEPT ![r].pc = "done", ![r].status = 200]
            /\ versionRows' = versionRows \cup
                  {[workflowId |-> dbRequests[r].id, versionNumber |-> dbRequests[r].next,
                    jsonContent |-> jsonStringify(dbRequests[r].jsonContent)]}
    /\ UNCHANGED deleted
    /\ UNCHANGED <<execVars, sessionVars>>
    /\ UNCHANGED <<repairVars, layoutVars, serverVars, clientVars>>

InitVersions ==
    /\ RepairIdle
    /\ LayoutIdle
    /\ AppStarted
    /\ geminiKeySet \in BOOLEAN

NextVersions ==
    \/ DbPostWorkflow
    \/ PutRequest
    \/ RestoreRequest
    \/ \E r \in DOMAIN dbRequests : FindLatestVersion(r)
    \/ \E r \in DOMAIN dbRequests : CreateVersion(r)

SpecVersions == InitVersions /\ [][NextVersions]_vars

----------------------------------------------------------------------------
(* Graph notions used to state the properties of the repairer; they are    *)
(* defined over element ids, independently of the traversal above.         *)

UniqueIds(elements) == Cardinality(ElementIds(elements)) = Len(elements)

Dangling(elements, c) ==
    c.source \notin ElementIds(elements) \/ c.target \notin ElementIds(elements)

Surviving(m) == SelectSeq(m.connections, LAMBDA c : ~Dangling(m.elements, c))

Range(seq) == {seq[k] : k \in 1..Len(seq)}

Count(seq, v) == Cardinality({k \in 1..Len(seq) : seq[k] = v})

\* Ids one undirected step away from S (connections with a missing end do not count).
Step(S, ids, connections) ==
    S \cup {c.target : c \in {d \in Range(connections) : d.source \in S /\ d.target \in ids}}
      \cup {c.source : c \in {d \in Range(connections) : d.target \in S /\ d.source \in ids}}

RECURSIVE Reach(_, _, _)
Reach(S, ids, connections) ==
    LET T == Step(S, ids, connections)
    IN  IF T = S THEN S ELSE Reach(T, ids, connections)

ComponentSets(elements, connections) ==
    {Reach({a}, ElementIds(elements), connections) : a \in ElementIds(elements)}

IsConnected(elements, connections) ==
    Cardinality(ComponentSets(elements, connections)) <= 1

Repaired == updated # NotRun

RepairedTwice == again # NotRun

----------------------------------------------------------------------------
(* Claims about ensureSingleConnectedProcess (specification SpecRepair).   *)

\* C1 (Connectivity): for a diagram with at least 2 elements and unique ids,
\* whatever its connections (none, dangling, self-loops), the repaired
\* diagram's undirected element graph is one connected component.
C1_Connectivity ==
    (Repaired /\ UniqueIds(modelIn.elements) /\ Len(modelIn.elements) >= 2)
        => /\ ElementIds(updated.elements) = ElementIds(modelIn.elements)
           /\ IsConnected(updated.elements, updated.connections)

\* C2 (Reference integrity): every output connection has both ends among the
\* element ids; every input connection with a missing end is gone, and every
\* other input connection is still there (as many times as in the input).
C2_ReferenceIntegrity ==
    Repaired =>
        /\ \A c \in Range(updated.connections) : ~Dangling(modelIn.elements, c)
        /\ \A c \in Range(modelIn.connections) :
              IF Dangling(modelIn.elements, c)
              THEN Count(updated.connections, c) = 0
              ELSE Count(updated.connections, c) >= Count(modelIn.connections, c)

\* C2 witness: the input had a dangling connection and a sound one, twice.
C2_Witness ==
    /\ Repaired
    /\ \E c \in Range(modelIn.connections) : Dangling(modelIn.elements, c)
    /\ \E c \in Range(modelIn.connections) :
          ~Dangling(modelIn.elements, c) /\ Count(Surviving(modelIn), c) = 1
    /\ Len(updated.connections) > Len(Surviving(modelIn))

AddedCount == Len(updated.connections) - Len(Surviving(modelIn))

ExpectedAdded ==
    IF modelIn.elements = <<>> THEN 0
    ELSE Cardinality(ComponentSets(modelIn.elements, Surviving(modelIn))) - 1

\* C3 (Merge minimality), for diagrams whose element ids are unique: the
\* number of connections added is (components of the pruned graph - 1), and
\* 0 without elements.
C3_MergeMinimality ==
    (Repaired /\ UniqueIds(modelIn.elements)) => AddedCount = ExpectedAdded

InputConnectedAndClean ==
    /\ \A c \in Range(modelIn.connections) : ~Dangling(modelIn.elements, c)
    /\ IsConnected(modelIn.elements, modelIn.connections)

AddedConnections ==
    SubSeq(updated.connections, Len(Surviving(modelIn)) + 1, Len(updated.connections))

\* Connection c joins the main component and the component numbered i.
Joins(c, elements, components, mainIdx, i) ==
    /\ DOMAIN c = {"source", "target"}
    /\ \E a \in Range(components[mainIdx]) : \E b \in Range(components[i]) :
          \/ (c.source = elements[a].id /\ c.target = elements[b].id)
          \/ (c.source = elements[b].id /\ c.target = elements[a].id)

\* C5 (Frame of repair): processName, swimlanes and elements are unchanged;
\* the output connections are the surviving input connections in their
\* original order (labels and duplicates kept) followed by the added ones, in
\* the order in which the non-main components were discovered.
C5_Frame ==
    Repaired =>
        LET pruned     == Surviving(modelIn)
            out        == updated.connections
            components == componentsOf(modelIn.elements, pruned)
            mainIdx    == mainIdxOf(modelIn.elements, components)
            added      == AddedConnections
        IN  /\ updated.processName = modelIn.processName
            /\ updated.swimlanes = modelIn.swimlanes
            /\ updated.elements = modelIn.elements
            /\ Len(out) >= Len(pruned)
            /\ SubSeq(out, 1, Len(pruned)) = pruned
            /\ \E f \in [1..Len(added) -> 1..Len(components)] :
                  /\ \A k \in 1..Len(added) :
                        f[k] # mainIdx /\ Joins(added[k], modelIn.elements, components, mainIdx, f[k])
                  /\ \A j, k \in 1..Len(added) : j < k => f[j] < f[k]

\* C5 witness: a decorated diagram (one lane, labelled connections) whose
\* repair added two connections.
C5_Witness ==
    /\ Repaired /\ modelIn.swimlanes # <<>>
    /\ Len(AddedConnections) = 2
    /\ \E c \in Range(modelIn.connections) : c.label = "yes"

\* The input is the disjoint-merge scenario.
IsScenario ==
    /\ Len(modelIn.elements) = 4
    /\ {<<e.id, e.type>> : e \in Range(modelIn.elements)} =
           {<<"s1", "start_event">>, <<"t1", "task">>, <<"t2", "task">>, <<"e1", "end_event">>}
    /\ Len(modelIn.connections) = 2
    /\ Range(modelIn.connections) =
           {[source |-> "s1", target |-> "t1"], [source |-> "t2", target |-> "e1"]}

ElementOf(m, id) == CHOOSE e \in Range(m.elements) : e.id = id

\* Connection c joins a \in A and b \in B that are as near as any such pair.
JoinsNearest(m, c, A, B) ==
    \E a \in A : \E b \in B :
        /\ {c.source, c.target} = {a, b}
        /\ \A a2 \in A : \A b2 \in B :
               ~numLess(squaredDistance(ElementOf(m, a2), ElementOf(m, b2)),
                        squaredDistance(ElementOf(m, a), ElementOf(m, b)))

\* C13 (Disjoint merge scenario): for A = s1 -> t1 and B = t2 -> e1 with no
\* connection between them, in whatever order the elements are listed, the
\* repair adds exactly one connection, it joins a pair (one element of A, one
\* of B) of minimal center distance, and the main component is A.
C13_DisjointMerge ==
    (Repaired /\ IsScenario) =>
        LET components == componentsOf(modelIn.elements, Surviving(modelIn))
            main       == components[mainIdxOf(modelIn.elements, components)]
        IN  /\ {modelIn.elements[k].id : k \in Range(main)} = {"s1", "t1"}
            /\ Len(AddedConnections) = 1
            /\ JoinsNearest(modelIn, AddedConnections[1], {"s1", "t1"}, {"t2", "e1"})

\* Position of the element named id in the listing (ids unique).
ListedAt(m, id) == CHOOSE k \in 1..Len(m.elements) : m.elements[k].id = id

\* A component is discovered when its first listed element is reached.
DiscoveredAt(m, S) == CHOOSE k \in {ListedAt(m, id) : id \in S} : \A id \in S : k <= ListedAt(m, id)

HasStartEvent(m, S) == \E id \in S : ElementOf(m, id).type = "start_event"

\* Of the components in Cs, the one discovered first.
Earliest(m, Cs) == CHOOSE S \in Cs : \A T \in Cs : DiscoveredAt(m, S) <= DiscoveredAt(m, T)

\* The main component as the design describes it.
ExpectedMain(m) ==
    LET Cs        == ComponentSets(m.elements, Surviving(m))
        withStart == {S \in Cs : HasStartEvent(m, S)}
        largest   == {S \in Cs : \A T \in Cs : Cardinality(S) >= Cardinality(T)}
    IN  IF withStart # {} THEN Earliest(m, withStart) ELSE Earliest(m, largest)

\* The ids of the component the repairer takes as main.
MainIds(m) ==
    LET components == componentsOf(m.elements, Surviving(m))
    IN  {m.elements[k].id : k \in Range(components[mainIdxOf(m.elements, components)])}

\* C15 (Main component selection), for a diagram with unique ids: the main
\* component is the first discovered component that contains a start_event;
\* when no component contains one it is the component with the most elements,
\* the earliest discovered among the largest.
C15_MainSelection ==
    (Repaired /\ UniqueIds(modelIn.elements) /\ modelIn.elements # <<>>)
        => MainIds(modelIn) = ExpectedMain(modelIn)

\* C15 witness: no start_event; the first component has one element, the
\* second has two and is the main component.
C15_Witness ==
    /\ Repaired /\ UniqueIds(modelIn.elements) /\ Len(modelIn.elements) = 3
    /\ \A e \in Range(modelIn.elements) : e.type # "start_event"
    /\ Cardinality(ComponentSets(modelIn.elements, Surviving(modelIn))) = 2
    /\ modelIn.elements[1].id \notin MainIds(modelIn)
    /\ Cardinality(MainIds(modelIn)) = 2

\* The components found on the input, in discovery order.
InputComponents == componentsOf(modelIn.elements, Surviving(modelIn))

\* Squared center distance of the i-th element of main and the j-th element
\* of other, two components given as sequences of element indices in
\* discovery order.
PairDistance(main, other, i, j) ==
    squaredDistance(modelIn.elements[main[i]], modelIn.elements[other[j]])

\* Connection c joins the i-th element of main and the j-th element of other.
JoinsPair(c, main, other, i, j) ==
    {c.source, c.target} = {modelIn.elements[main[i]].id, modelIn.elements[other[j]].id}

\* Pair (i2, j2) is met before pair (i, j): main elements in the outer loop.
MetBefore(i2, j2, i, j) == i2 < i \/ (i2 = i /\ j2 < j)

\* c joins the pair of main and other that is nearest and, among the nearest,
\* met first.
JoinsFirstNearest(c, main, other) ==
    \E i \in 1..Len(main) : \E j \in 1..Len(other) :
        /\ JoinsPair(c, main, other, i, j)
        /\ LET d == PairDistance(main, other, i, j)
           IN  \A i2 \in 1..Len(main) : \A j2 \in 1..Len(other) :
                   LET d2 == PairDistance(main, other, i2, j2)
                   IN  /\ ~numLess(d2, d)
                       /\ MetBefore(i2, j2, i, j) => numLess(d, d2)

\* C16 (Nearest-pair selection), for a diagram with unique ids: every added
\* connection joins a main element and an element of one other component
\* such that no pair of the two components has a smaller squared center
\* distance, and every pair met earlier in the scan (main elements outer,
\* component elements inner, both in discovery order) is strictly farther.
C16_NearestPair ==
    (Repaired /\ UniqueIds(modelIn.elements) /\ Len(updated.connections) > Len(Surviving(modelIn))) =>
        LET components == InputComponents
            mainIdx    == mainIdxOf(modelIn.elements, components)
            added      == AddedConnections
        IN  \A k \in 1..Len(added) :
                \E comp \in (1..Len(components)) \ {mainIdx} :
                    JoinsFirstNearest(added[k], components[mainIdx], components[comp])

\* C16 witness: two main elements are equally near the other component's
\* element, nearer ones do not exist, and one connection was added.
C16_Witness ==
    /\ Repaired /\ UniqueIds(modelIn.elements)
    /\ Len(AddedConnections) = 1
    /\ LET components == InputComponents
           mainIdx    == mainIdxOf(modelIn.elements, components)
       IN  /\ Len(components) = 2
           /\ Len(components[mainIdx]) = 2
           /\ LET d == PairDistance(components[mainIdx], components[3 - mainIdx], 1, 1)
              IN  /\ isOrdinary(d)
                  /\ d = PairDistance(components[mainIdx], components[3 - mainIdx], 2, 1)

CenterX(m, id) == getElementCenter(ElementOf(m, id)).x

\* C17 (Direction of an added connection), for a diagram with unique ids: the
\* source's center-x is not larger than the target's, and when the two are
\* equal the source is the element of the main component.
C17_Direction ==
    (Repaired /\ UniqueIds(modelIn.elements) /\ Len(updated.connections) > Len(Surviving(modelIn))) =>
        LET main  == MainIds(modelIn)
            added == AddedConnections
        IN  \A k \in 1..Len(added) :
                LET sx == CenterX(modelIn, added[k].source)
                    tx == CenterX(modelIn, added[k].target)
                IN  /\ ~numLess(tx, sx)
                    /\ sx = tx => (added[k].source \in main /\ added[k].target \notin main)

\* C17 witness: a connection was added between a task and an event whose
\* centers have the same x, from the main component's element.
C17_Witness ==
    /\ Repaired /\ UniqueIds(modelIn.elements)
    /\ Len(AddedConnections) >= 1
    /\ LET c == AddedConnections[1]
       IN  /\ CenterX(modelIn, c.source) = CenterX(modelIn, c.target)
           /\ ElementOf(modelIn, c.source).type # ElementOf(modelIn, c.target).type
           /\ c.source \in MainIds(modelIn)

\* C18 (Direct merge into main), for a diagram with unique ids: every added
\* connection has one end in the main component and the other end outside
\* it, and every other component is an end of exactly one added connection.
C18_DirectMerge ==
    (Repaired /\ UniqueIds(modelIn.elements) /\ modelIn.elements # <<>>) =>
        LET main  == MainIds(modelIn)
            added == AddedConnections
        IN  /\ \A k \in 1..Len(added) :
                  Cardinality({added[k].source, added[k].target} \cap main) = 1
                      /\ added[k].source # added[k].target
            /\ \A S \in ComponentSets(modelIn.elements, Surviving(modelIn)) \ {main} :
                  Cardinality({k \in 1..Len(added) :
                                  added[k].source \in S \/ added[k].target \in S}) = 1

\* Squared distance of the centers of a and b at their render positions.
RenderDistance(positions, a, b) ==
    LET ca == getElementCenterAt(a, getElementRenderPosition(positions, a))
        cb == getElementCenterAt(b, getElementRenderPosition(positions, b))
    IN  (ca.x - cb.x) * (ca.x - cb.x) + (ca.y - cb.y) * (ca.y - cb.y)

\* C19 (Distances on layout positions), for a diagram with unique ids: every
\* added connection joins a main element and an element of another component
\* that are, at the positions the layout assigns, as near as any pair of the
\* two components.
C19_LayoutDistances ==
    (Repaired /\ UniqueIds(modelIn.elements) /\ Len(updated.connections) > Len(Surviving(modelIn))) =>
        LET main      == MainIds(modelIn)
            added     == AddedConnections
            positions == layoutMap(modelIn)
        IN  \A k \in 1..Len(added) :
                \A S \in ComponentSets(modelIn.elements, Surviving(modelIn)) \ {main} :
                    (added[k].source \in S \/ added[k].target \in S) =>
                        \A a \in main : \A b \in S :
                            RenderDistance(positions, ElementOf(modelIn, added[k].source),
                                           ElementOf(modelIn, added[k].target))
                                <= RenderDistance(positions, ElementOf(modelIn, a), ElementOf(modelIn, b))

----------------------------------------------------------------------------
(* Claims about the layout (specification SpecLayout).                     *)

LaneMembers(lane) == {lane.elements[k] : k \in 1..Len(lane.elements)}

\* The horizontal intervals of a and b are at least minElementGap apart.
Separated(m, positions, a, b) ==
    LET wa == shapeSize(idToElement(m.elements, a)).w
        wb == shapeSize(idToElement(m.elements, b)).w
    IN  \/ positions[a].x + wa + minElementGap <= positions[b].x
        \/ positions[b].x + wb + minElementGap <= positions[a].x

\* C8 (Layout non-overlap): in every lane, any two distinct existing elements
\* of its membership get horizontal intervals [x, x + width] that are at
\* least the minimum gap (32) apart, however many elements the lane lists.
C8_NonOverlap ==
    layoutPositions.computed =>
        \A l \in 1..Len(canvasModel.swimlanes) :
            \A a, b \in LaneMembers(canvasModel.swimlanes[l]) \cap ElementIds(canvasModel.elements) :
                a # b => Separated(canvasModel, layoutPositions.positions, a, b)

\* The diagram with the stored positions replaced by alt (one per element).
Reposition(m, alt) ==
    [m EXCEPT !.elements = [k \in 1..Len(m.elements) |-> [m.elements[k] EXCEPT !.position = alt[k]]]]

Repositionings(m) == [1..Len(m.elements) -> StoredPositions]

\* C9 (Layout ignores stored positions): a diagram that differs from the
\* rendered one only in stored positions gets the same id-to-position map,
\* from the layout of App.tsx and from the compiled layout of App.js.
C9_IgnoresStoredPositions ==
    /\ layoutPositions.computed =>
          \A alt \in Repositionings(canvasModel) :
              layoutMap(Reposition(canvasModel, alt)) = layoutPositions.positions
    /\ compiledPositions.computed =>
          \A alt \in Repositionings(canvasModel) :
              layoutMapCompiled(Reposition(canvasModel, alt)) = compiledPositions.positions

\* Lane l lists exactly three distinct existing tasks, none of them listed by
\* another lane.
ThreeTaskLane(m, l) ==
    LET ms == m.swimlanes[l].elements
    IN  /\ Len(ms) = 3
        /\ Cardinality(LaneMembers(m.swimlanes[l])) = 3
        /\ \A k \in 1..3 : /\ ms[k] \in ElementIds(m.elements)
                            /\ idToElement(m.elements, ms[k]).type = "task"
                            /\ \A o \in 1..Len(m.swimlanes) :
                                  o # l => ms[k] \notin LaneMembers(m.swimlanes[o])

LaneXs(m, positions, l) ==
    [k \in 1..Len(m.swimlanes[l].elements) |-> positions[m.swimlanes[l].elements[k]].x]

\* C10 as claimed (Lane packing scenario): a lane listing the tasks
\* [t1, t2, t3] gets render x-positions 168, 360, 552.
C10_Original ==
    layoutPositions.computed =>
        \A l \in 1..Len(canvasModel.swimlanes) :
            ThreeTaskLane(canvasModel, l) =>
                LaneXs(canvasModel, layoutPositions.positions, l) = <<168, 360, 552>>

\* C10 amended: the left margin is 160 (laneGap 24 + laneHeaderWidth 120 + 16),
\* so a lane listing the tasks [t1, t2, t3] (listed by no other lane) gets
\* render x-positions 160, 352, 544.
C10_LanePacking ==
    layoutPositions.computed =>
        \A l \in 1..Len(canvasModel.swimlanes) :
            ThreeTaskLane(canvasModel, l) =>
                LaneXs(canvasModel, layoutPositions.positions, l) = <<160, 352, 544>>

\* C10 witness: a rendered diagram with such a lane.
C10_Witness ==
    /\ layoutPositions.computed
    /\ \E l \in 1..Len(canvasModel.swimlanes) : ThreeTaskLane(canvasModel, l)

\* The packing rule applied to the member ids from the k-th on: the x of each
\* member in turn, -1 for a member id that is not an element id.
RECURSIVE RuleXs(_, _, _, _)
RuleXs(m, members, k, cursor) ==
    IF k > Len(members) THEN <<>>
    ELSE IF members[k] \notin ElementIds(m.elements)
         THEN <<-1>> \o RuleXs(m, members, k + 1, cursor)
    ELSE LET w == shapeSize(idToElement(m.elements, members[k])).w
             x == Min(Max(cursor, minX), width - rightMargin - w)
         IN  <<x>> \o RuleXs(m, members, k + 1, x + w + minElementGap)

\* The k-th member of lane l is the last listing of its id: no later member
\* of the lane and no later lane names it, so its placement is the one kept.
LastListing(m, l, k) ==
    LET id == m.swimlanes[l].elements[k]
    IN  /\ \A k2 \in (k + 1)..Len(m.swimlanes[l].elements) : m.swimlanes[l].elements[k2] # id
        /\ \A l2 \in (l + 1)..Len(m.swimlanes) : id \notin LaneMembers(m.swimlanes[l2])

\* C20 (Horizontal packing rule): in every lane, taking the member ids in
\* order with a cursor that starts at the left margin, an existing element is
\* placed at x = min(max(cursor, left margin), width - right margin - its
\* width), the cursor moves to x + its width + the minimum gap, and a member
\* id that is not an element id takes no space.  (Of an id listed more than
\* once, the map keeps the last placement.)
C20_PackingRule ==
    layoutPositions.computed =>
        \A l \in 1..Len(canvasModel.swimlanes) :
            LET members == canvasModel.swimlanes[l].elements
                xs      == RuleXs(canvasModel, members, 1, minX)
            IN  \A k \in 1..Len(members) :
                    (members[k] \in ElementIds(canvasModel.elements) /\ LastListing(canvasModel, l, k))
                        => layoutPositions.positions[members[k]].x = xs[k]

\* C20 witness: a lane lists a missing id and then two elements; the first
\* element sits at the left margin and the second follows it.
C20_Witness ==
    /\ layoutPositions.computed
    /\ \E l \in 1..Len(canvasModel.swimlanes) :
          LET members == canvasModel.swimlanes[l].elements
          IN  /\ Len(members) = 3
              /\ members[1] = GhostId
              /\ members[2] \in ElementIds(canvasModel.elements)
              /\ members[3] \in ElementIds(canvasModel.elements) \ {members[2]}
              /\ LastListing(canvasModel, l, 2) /\ LastListing(canvasModel, l, 3)
              /\ layoutPositions.positions[members[2]].x = minX
              /\ layoutPositions.positions[members[3]].x > minX

\* The height of the footprint, by element type.
FootprintHeight(type) ==
    CASE type = "task" -> 60 [] type = "gateway" -> 56 [] OTHER -> 40

\* The y of the horizontal line through the middle of the band of lane i
\* (i counted from 0): bands are 140 high and 24 apart, the first 24 down.
BandMidline(i) == 24 + i * (140 + 24) + 70

\* The lane an element is placed in: the last lane that lists it, lane 0 for
\* an element that no lane lists.
PlacedLane(m, id) ==
    LET listing == {l \in 1..Len(m.swimlanes) : id \in LaneMembers(m.swimlanes[l])}
    IN  IF listing = {} THEN 0 ELSE (CHOOSE l \in listing : \A o \in listing : o <= l) - 1

CenterY(m, positions, k) == getElementCenterAt(m.elements[k], positions[m.elements[k].id]).y

\* C21 (Vertical centering): an element placed in lane index i gets
\* y = laneGap + i * (laneHeight + laneGap) + (laneHeight - footprint height) / 2;
\* for every element type (task 60, event 40, gateway 56 high) its visual
\* center y is the midline of the band of lane i, and all elements placed in
\* one lane have the same center y.
C21_VerticalCentering ==
    layoutPositions.computed =>
        LET m         == canvasModel
            positions == layoutPositions.positions
        IN  /\ \A k \in 1..Len(m.elements) :
                  LET el == m.elements[k]
                      i  == PlacedLane(m, el.id)
                  IN  /\ positions[el.id].y
                            = laneGap + i * (laneHeight + laneGap)
                                + (laneHeight - FootprintHeight(el.type)) \div 2
                      /\ 2 * positions[el.id].y
                            = 2 * (laneGap + i * (laneHeight + laneGap))
                                + (laneHeight - FootprintHeight(el.type))
                      /\ CenterY(m, positions, k) = BandMidline(i)
            /\ \A k1, k2 \in 1..Len(m.elements) :
                  PlacedLane(m, m.elements[k1].id) = PlacedLane(m, m.elements[k2].id)
                      => CenterY(m, positions, k1) = CenterY(m, positions, k2)

\* C21 witness: the second lane holds a task, a gateway and an event, and all
\* three have their centers on its midline, 258.
C21_Witness ==
    /\ layoutPositions.computed
    /\ Len(canvasModel.swimlanes) = 2
    /\ Len(canvasModel.elements) = 3
    /\ {canvasModel.elements[k].type : k \in 1..3} = {"task", "gateway", "end_event"}
    /\ \A k \in 1..3 :
          /\ PlacedLane(canvasModel, canvasModel.elements[k].id) = 1
          /\ CenterY(canvasModel, layoutPositions.positions, k) = 258

\* The last place of id in the members, 0 if it is not among them.
LastIndexOf(members, id) ==
    LET at == {k \in 1..Len(members) : members[k] = id}
    IN  IF at = {} THEN 0 ELSE CHOOSE k \in at : \A o \in at : o <= k

\* C22 (Fallback placement): every element that no lane lists gets x = the
\* default left margin (160) and y centered in the band of lane 0, so the
\* layout map has a position for every element of the diagram; an element
\* listed in several lanes gets the position computed for the last such lane.
C22_FallbackPlacement ==
    layoutPositions.computed =>
        LET m         == canvasModel
            positions == layoutPositions.positions
        IN  /\ DOMAIN positions = ElementIds(m.elements)
            /\ \A k \in 1..Len(m.elements) :
                  LET el      == m.elements[k]
                      listing == {l \in 1..Len(m.swimlanes) : el.id \in LaneMembers(m.swimlanes[l])}
                  IN  IF listing = {}
                      THEN positions[el.id] = [x |-> 160, y |-> 24 + (140 - FootprintHeight(el.type)) \div 2]
                      ELSE LET last    == CHOOSE l \in listing : \A o \in listing : o <= l
                               members == m.swimlanes[last].elements
                               at      == LastIndexOf(members, el.id)
                           IN  /\ positions[el.id].x = RuleXs(m, members, 1, minX)[at]
                               /\ positions[el.id].y
                                     = BandMidline(last - 1) - FootprintHeight(el.type) \div 2

\* C22 witness: one element is listed by no lane and sits at (160, 64) in the
\* band of lane 0 (a task), another is listed by both lanes, behind another
\* element in the second, and sits in the second lane's band at x > 160.
C22_Witness ==
    /\ layoutPositions.computed
    /\ Len(canvasModel.swimlanes) = 2
    /\ \E k \in 1..Len(canvasModel.elements) :
          /\ \A l \in 1..2 : canvasModel.elements[k].id \notin LaneMembers(canvasModel.swimlanes[l])
          /\ canvasModel.elements[k].type = "task"
          /\ layoutPositions.positions[canvasModel.elements[k].id] = [x |-> 160, y |-> 64]
    /\ \E k \in 1..Len(canvasModel.elements) :
          /\ \A l \in 1..2 : canvasModel.elements[k].id \in LaneMembers(canvasModel.swimlanes[l])
          /\ layoutPositions.positions[canvasModel.elements[k].id].x > 160
          /\ layoutPositions.positions[canvasModel.elements[k].id].y > 164

----------------------------------------------------------------------------
(* Claims about the server's handlers (specification SpecExecute).         *)

IsSchemaCall(entry) == entry.call \in {"ProcessSchema.parse", "ProcessSchema.safeParse"}

\* The k-th call of the request's handler hands to the repairer a diagram
\* that an earlier call of the same handler has validated.
ValidatedBefore(request, k) ==
    \E j \in 1..(k - 1) :
        /\ IsSchemaCall(request.trace[j])
        /\ request.trace[j].arg = request.trace[k].arg
        /\ request.trace[j].ok

\* C24 (Validation precedes repair): in POST /assistant/execute a candidate
\* is handed to ensureSingleConnectedProcess only after it has passed
\* ProcessSchema validation, on the LLM path and on the rule-based path, and
\* a schema violation is rejected (the request is answered with an error)
\* before the repairer runs.
C24_ValidationPrecedesRepair ==
    \A r \in DOMAIN requests :
        LET request == requests[r]
        IN  \A k \in 1..Len(request.trace) :
                /\ request.trace[k].call = "ensureSingleConnectedProcess"
                      => ValidatedBefore(request, k)
                /\ (IsSchemaCall(request.trace[k]) /\ ~request.trace[k].ok)
                      => /\ request.status \in {400, 422, 500}
                         /\ \A j \in (k + 1)..Len(request.trace) :
                               request.trace[j].call # "ensureSingleConnectedProcess"

\* The element ids form one connected component, and no connection has a
\* missing endpoint.
ConnectedAndClean(m) ==
    /\ \A c \in Range(m.connections) : ~Dangling(m.elements, c)
    /\ IsConnected(m.elements, m.connections)

\* Request r is answered in this step, with an error.
FailsNow(r) ==
    /\ r \in DOMAIN requests'
    /\ requests'[r].status \in {400, 422, 500}
    /\ r \notin DOMAIN requests \/ requests[r].status = 0

\* C25 (Server model invariant): after any sequence and interleaving of
\* POST /assistant/execute and POST /process/reset requests, processModel is
\* schema-valid, has no connection with a missing endpoint and is a single
\* connected component; a request that fails (empty instruction, 500 or 422)
\* leaves processModel unchanged.
C25_ServerModelInvariant ==
    /\ [](IsDiagram(processModel) /\ ConnectedAndClean(processModel))
    /\ [][\A r \in 1..MaxRequests : FailsNow(r) => processModel' = processModel]_vars

----------------------------------------------------------------------------
(* Claims about what the client displays (specification SpecClient).       *)

\* C7 (Displayed diagrams are repaired): in every reachable state of the
\* client, the model handed to Canvas is one connected component and every
\* connection of it references existing elements.
C7_DisplayedConnected ==
    /\ \A c \in Range(model.connections) : ~Dangling(model.elements, c)
    /\ IsConnected(model.elements, model.connections)

----------------------------------------------------------------------------
(* Claims about the repairer and the layout together (specification        *)
(* SpecCore).                                                              *)

\* C14 (Nothing is fatal): on every schema-valid diagram, whatever its graph
\* (no element, one element, no swimlane, self-loops, duplicate connections,
\* missing endpoints, lanes listing missing ids), the repair and the layout
\* each run to the end and return a result: a diagram of the schema's shape
\* over the same elements, and a map with one render position per element id.
\* (Repair and Render are each the whole call, so a state after them exists
\* only if the call returned.)
C14_NothingFatal ==
    /\ Repaired => (IsDiagram(updated) /\ updated.elements = modelIn.elements)
    /\ layoutPositions.computed =>
          /\ DOMAIN layoutPositions.positions = ElementIds(canvasModel.elements)
          /\ \A k \in 1..Len(canvasModel.elements) :
                IsPoint(getElementRenderPosition(layoutPositions.positions, canvasModel.elements[k]))

\* C14 witness: both have returned on a diagram with a self-loop, a connection
\* to a missing element, a repeated element id, and a lane that lists a
\* missing id and leaves an element out.
C14_Witness ==
    /\ Repaired /\ layoutPositions.computed
    /\ Len(modelIn.elements) = 2 /\ ~UniqueIds(modelIn.elements)
    /\ \E c \in Range(modelIn.connections) : Dangling(modelIn.elements, c)
    /\ \E c \in Range(modelIn.connections) : c.source = c.target /\ ~Dangling(modelIn.elements, c)
    /\ \E l \in Range(modelIn.swimlanes) : GhostId \in Range(l.elements)

----------------------------------------------------------------------------
(* Claims about getBoundaryPoint (specification SpecBoundary).  Returned   *)
(* Numbers are compared exactly, as values (-1)^neg * m * 2^e.             *)

exactOfInt(n) == [neg |-> n < 0, m |-> bigFromInt(intAbs(n)), e |-> 0]

exactOfNumber(a) == [neg |-> a.neg, m |-> a.m, e |-> a.e]

\* u - v, exactly.
exactDiff(u, v) == exactSum(u, [v EXCEPT !.neg = ~v.neg])

\* u * k for an integer 0 <= k < Base.
exactTimes(u, k) == [u EXCEPT !.m = bigMul(u.m, bigFromInt(k))]

\* |u| <= |v|
exactAbsLeq(u, v) ==
    LET e == IF u.e < v.e THEN u.e ELSE v.e
    IN  bigCmp(bigShl(u.m, u.e - e), bigShl(v.m, v.e - e)) <= 0

exactAbsEq(u, v) == exactAbsLeq(u, v) /\ exactAbsLeq(v, u)

exactIsZero(u) == bigCmp(u.m, bigZero) = 0

\* u and v are zero or of the same sign.
exactSameSign(u, v) == exactIsZero(u) \/ exactIsZero(v) \/ u.neg = v.neg

boundaryCenter == getElementCenterAt(boundaryIn.el, boundaryIn.renderPos)

\* b - c in each coordinate, for the returned point b and the center c.
boundaryFromCenter ==
    [x |-> exactDiff(exactOfNumber(boundaryOut.x), exactOfInt(boundaryCenter.x)),
     y |-> exactDiff(exactOfNumber(boundaryOut.y), exactOfInt(boundaryCenter.y))]

\* A task's boundary was resolved toward a center other than its own.
TaskResolved ==
    /\ boundaryOut.resolved
    /\ boundaryIn.el.type = "task"
    /\ boundaryOffset # [x |-> 0, y |-> 0]

\* The returned point is a finite Number in both coordinates.
FinitePoint == boundaryOut.x.cls \in {"zero", "num"} /\ boundaryOut.y.cls \in {"zero", "num"}

\* max(|bx - cx| / 80, |by - cy| / 30) = 1
OnRectangleOutline ==
    LET u == boundaryFromCenter
    IN  \/ exactAbsEq(u.x, exactOfInt(80)) /\ exactAbsLeq(u.y, exactOfInt(30))
        \/ exactAbsEq(u.y, exactOfInt(30)) /\ exactAbsLeq(u.x, exactOfInt(80))

\* b - c is a positive multiple of d = toward - c.
OnRay ==
    LET u == boundaryFromCenter
        d == boundaryOffset
    IN  /\ exactSameSign(u.x, exactOfInt(d.x)) /\ exactSameSign(u.y, exactOfInt(d.y))
        /\ exactIsZero(u.x) = (d.x = 0) /\ exactIsZero(u.y) = (d.y = 0)
        /\ exactAbsEq(exactTimes(u.x, intAbs(d.y)), exactTimes(u.y, intAbs(d.x)))

\* The task at (100,100) with the other center directly to its right.
RightOfTaskAt100 ==
    /\ TaskResolved
    /\ boundaryIn.renderPos = [x |-> 100, y |-> 100]
    /\ boundaryOffset.y = 0 /\ boundaryOffset.x > 0

ReturnsPoint(x, y) == boundaryOut.x = dblFromInt(x) /\ boundaryOut.y = dblFromInt(y)

Near(v, n, k) ==
    exactAbsLeq(exactDiff(exactTimes(v, k), exactOfInt(n)),
                [neg |-> FALSE, m |-> bigFromInt(k), e |-> -40])

\* Each coordinate of the returned point is within 2^-40 of the point
\* c + d / max(|dx|/80, |dy|/30) = c + 240 d / max(3|dx|, 8|dy|).
NearOutlinePoint ==
    LET c == boundaryCenter
        d == boundaryOffset
        k == Max(3 * intAbs(d.x), 8 * intAbs(d.y))
    IN  /\ Near(exactOfNumber(boundaryOut.x), c.x * k + 240 * d.x, k)
        /\ Near(exactOfNumber(boundaryOut.y), c.y * k + 240 * d.y, k)

Degenerate == boundaryOut.resolved /\ boundaryOffset = [x |-> 0, y |-> 0]

\* C12 (Degenerate geometry): for every element type, when the other center
\* equals the element's own center, getBoundaryPoint returns the center
\* unchanged, a finite point (a division by zero would have given Infinity or
\* NaN).
C12_Degenerate ==
    Degenerate => FinitePoint /\ ReturnsPoint(boundaryCenter.x, boundaryCenter.y)

\* C12 witness: the degenerate call Canvas makes for a connection between two
\* elements laid out at the same position has returned.
C12_Witness == Degenerate /\ boundaryIn.caller = "same place"

\* A gateway's, or an event's, boundary was resolved toward a center other
\* than its own.
GatewayResolved ==
    /\ boundaryOut.resolved
    /\ boundaryIn.el.type = "gateway"
    /\ boundaryOffset # [x |-> 0, y |-> 0]

EventResolved ==
    /\ boundaryOut.resolved
    /\ boundaryIn.el.type \in {"start_event", "end_event"}
    /\ boundaryOffset # [x |-> 0, y |-> 0]

\* a * k for a small natural number k < Base.
RECURSIVE bigScaleFrom(_, _, _, _)
bigScaleFrom(a, k, i, carry) ==
    IF i > NDigits THEN <<>>
    ELSE LET t == a[i] * k + carry
         IN  <<t % Base>> \o bigScaleFrom(a, k, i + 1, t \div Base)

\* u * |u| * k, exactly, for |u| < 2^56 * 2^(u.e) and 0 < k < Base.
exactSignedSquareTimes(u, k) ==
    [neg |-> u.neg, m |-> bigScaleFrom(bigMul(u.m, u.m), k, 1, 0), e |-> 2 * u.e]

\* u <= v
exactLeq(u, v) ==
    LET w == exactDiff(v, u)
    IN  exactIsZero(w) \/ ~w.neg

\* |bx - cx| + |by - cy| = 28
OnDiamondOutline ==
    LET u == boundaryFromCenter
    IN  exactAbsEq(exactSum([u.x EXCEPT !.neg = FALSE], [u.y EXCEPT !.neg = FALSE]),
                   exactOfInt(28))

\* (bx - cx)^2 + (by - cy)^2 = 18^2
OnCircleOutline ==
    LET u == boundaryFromCenter
    IN  exactAbsEq(exactSum([exactSignedSquareTimes(u.x, 1) EXCEPT !.neg = FALSE],
                            [exactSignedSquareTimes(u.y, 1) EXCEPT !.neg = FALSE]),
                   exactOfInt(324))

NearDiamondPoint ==
    LET c == boundaryCenter
        d == boundaryOffset
        k == intAbs(d.x) + intAbs(d.y)
    IN  /\ Near(exactOfNumber(boundaryOut.x), c.x * k + 28 * d.x, k)
        /\ Near(exactOfNumber(boundaryOut.y), c.y * k + 28 * d.y, k)

\* |u - t / sqrt(n)| <= 2^-40 for a value u and integers t, n with
\* 0 < n < Base: u - 2^-40 <= t / sqrt(n) <= u + 2^-40, each side compared
\* after multiplying by sqrt(n) and squaring with the sign kept.
NearRoot(u, t, n) ==
    LET eps == [neg |-> FALSE, m |-> bigOne, e |-> -40]
        lo  == exactDiff(u, eps)
        hi  == exactSum(u, eps)
        tt  == [neg |-> t < 0, m |-> bigFromInt(t * t), e |-> 0]
    IN  /\ exactLeq(exactSignedSquareTimes(lo, n), tt)
        /\ exactLeq(tt, exactSignedSquareTimes(hi, n))

\* Each coordinate of the returned point is within 2^-40 of the point
\* c + 18 d / sqrt(dx^2 + dy^2).
NearCirclePoint ==
    LET u == boundaryFromCenter
        d == boundaryOffset
        n == d.x * d.x + d.y * d.y
    IN  /\ NearRoot(u.x, 18 * d.x, n)
        /\ NearRoot(u.y, 18 * d.y, n)

----------------------------------------------------------------------------
(* Claims about the undo/redo history (specification SpecClient).          *)

\* history is non-empty, historyIndex points into it, and the displayed model
\* is the entry it points at.
HistoryWellFormed ==
    /\ Len(history) >= 1
    /\ historyIndex \in 0..(Len(history) - 1)
    /\ model = history[historyIndex + 1]

\* What undo and redo leave behind when invoked in the current state.
AfterUndo == goBackInHistory(history, historyIndex, model, pendingSave, activeWorkflowId)
AfterRedo == goForwardInHistory(history, historyIndex, model, pendingSave, activeWorkflowId)
Untouched == [historyIndex |-> historyIndex, model |-> model, pendingSave |-> pendingSave]

\* A step that gives the history a new model: the history changes and is not
\* the single entry a load, a restore or a reset leaves.
NewModelStep == history' # history /\ Len(history') > 1

----------------------------------------------------------------------------
(* Claims about overlapping requests and the debounced save                *)
(* (specifications SpecSession and SpecSessionFair).                       *)

\* A step in which a sendInstruction call receives its response.
ResponseArrives == Len(inFlight') < Len(inFlight)

\* C27: each successful sendInstruction appends exactly one entry relative to
\* the history current when its response arrives: the entries up to the
\* current index stay, only the redo entries after it go, and the result
\* becomes the last and current entry, also when calls overlap or an undo or
\* redo happened while the request was in flight.
C27_NoLostResult ==
    [][ResponseArrives =>
          /\ history' = Append(SubSeq(history, 1, historyIndex + 1), model')
          /\ historyIndex' = Len(history') - 1]_vars


\* The scheduleSave calls whose timer is armed.
ArmedTimers == {c \in DOMAIN saveCalls : saveCalls[c].state = "armed"}

\* The scheduleSave calls whose PUT has been sent.
IsSent(c) == saveCalls[c].state \in {"sent", "accepted", "failed"}

\* The latest scheduleSave call for workflow id, 0 if there is none.
LatestCallFor(id) ==
    LET cs == {c \in DOMAIN saveCalls : saveCalls[c].id = id}
    IN  IF cs = {} THEN 0 ELSE CHOOSE c \in cs : \A d \in cs : d <= c

\* At most one timer is pending and it belongs to the latest call; a call
\* whose timer was replaced before it fired is never sent.
OneTimerLatestOnly ==
    /\ [](Cardinality(ArmedTimers) <= 1 /\ \A c \in ArmedTimers : c = Len(saveCalls))
    /\ [][\A c \in DOMAIN saveCalls :
            saveCalls[c].state = "cancelled" => saveCalls'[c].state = "cancelled"]_vars

\* C28: the debounced save keeps at most one pending timer, of saves scheduled
\* before the previous timer fired only the most recently scheduled (id, json)
\* is sent as a PUT, and every workflow for which a save was scheduled
\* eventually has its latest scheduled json sent.
C28_DebouncedSave ==
    /\ OneTimerLatestOnly
    /\ \A id \in 1..MaxSessionWorkflows :
          <>[](LatestCallFor(id) # 0 => IsSent(LatestCallFor(id)))


\* The scheduleSave calls whose PUT has not resolved yet.
Unresolved == {c \in DOMAIN saveCalls : saveCalls[c].state \in {"armed", "sent"}}

\* The (id, json) of the latest scheduleSave call has been accepted by a PUT.
LatestAccepted ==
    /\ saveCalls # <<>>
    /\ \E c \in DOMAIN saveCalls :
          /\ saveCalls[c].state = "accepted"
          /\ saveCalls[c].id = pendingSaveRef.id
          /\ saveCalls[c].json = pendingSaveRef.json

\* C29: whenever the status is 'saved', the json of the most recent
\* scheduleSave call has been accepted by a PUT and no scheduled change is
\* pending or unsent; the status is 'saving' from a scheduleSave call until
\* the PUT of that call resolves, also while an earlier PUT is in flight.
C29_SaveStatusTruthful ==
    /\ saving = "saved" => (LatestAccepted /\ ArmedTimers = {})
    /\ Unresolved # {} => saving = "saving"


----------------------------------------------------------------------------
(* Claims about the version table (specification SpecVersions).            *)

VersionNumbers(id) == {row.versionNumber : row \in RowsOf(versionRows, id)}

\* Version numbers are unique per workflow and form 1..n.
UniqueAndGapless ==
    \A id \in 1..MaxDbWorkflows :
        /\ \A a, b \in RowsOf(versionRows, id) : a.versionNumber = b.versionNumber => a = b
        /\ VersionNumbers(id) = 1..Cardinality(RowsOf(versionRows, id))

\* Every row a step stores carries the highest existing number plus one.
StoresHighestPlusOne ==
    \A row \in versionRows' \ versionRows :
        row.versionNumber = nextVersionNumber(versionRows, row.workflowId)

\* A restore request that answers 200 in this step has stored one new row
\* whose content is that of version n, which is still there.
RestoreAppendsCopy ==
    \A r \in DOMAIN dbRequests :
        (dbRequests[r].kind = "restore" /\ dbRequests[r].status = 0 /\ dbRequests'[r].status = 200)
        => \E new \in versionRows' \ versionRows : \E old \in versionRows' :
              /\ versionRows' = versionRows \cup {new}
              /\ new.workflowId = dbRequests[r].id
              /\ old.workflowId = dbRequests[r].id
              /\ old.versionNumber = dbRequests[r].n
              /\ new.jsonContent = old.jsonContent

\* C30: under any interleaving of concurrent PUT and restore requests, the
\* stored version numbers of each workflow are unique, every successful
\* createWorkflowVersion stores the highest existing number plus one, so the
\* numbers form 1..n without gaps; no step changes or deletes an existing
\* version, and a restore appends a version whose content is that of
\* version n.
C30_VersionNumbering ==
    /\ []UniqueAndGapless
    /\ [][/\ StoresHighestPlusOne
          /\ versionRows \subseteq versionRows'
          /\ RestoreAppendsCopy]_vars

\* Two requests read the same next number; one stored it, the other was
\* rejected by the unique index; a restore has stored its copy.
C30_Witness ==
    \E a, b, c \in DOMAIN dbRequests :
        /\ a # b
        /\ dbRequests[a].id = dbRequests[b].id
        /\ dbRequests[a].next = dbRequests[b].next
        /\ dbRequests[a].status = 200
        /\ dbRequests[b].status \in {400, 500}
        /\ dbRequests[c].kind = "restore"
        /\ dbRequests[c].status = 200

====
